---- MODULE Spec2Model ----
(***************************************************************************)
(* Model of the buttondown CLI synchronisation engine: the push and pull   *)
(* orchestrators (commands/push.tsx, commands/pull.tsx), the email codec,  *)
(* the image reference resolver, the sync state store and the remote API   *)
(* as the resources use it.                                                *)
(*                                                                         *)
(* Abstractions.  A body is a sequence of tokens: text, whitespace, the    *)
(* editor-mode marker comment, or an image reference ![alt](target) as the *)
(* image regular expressions recognise it.  A target is a relative path    *)
(* (with a normalised and an unnormalised spelling of the same file), an   *)
(* http(s) URL, or a protocol-relative URL.  A file text is the record of  *)
(* the front matter keys it holds plus its body.  Ids are naturals, 0 is   *)
(* "no id"; "" is an absent string field.  The server hands out fresh ids. *)
(***************************************************************************)
EXTENDS Integers, Sequences, FiniteSets, TLC

\* ---------------------------------------------------------------- bounds
MaxRuns == 2
MaxEdits == 1
MaxFaults == 1
MaxCollection == 201
MaxTokens == 2
MaxCalls == 2

\* ------------------------------------------------------- small utilities
Range(s) == {s[i] : i \in 1..Len(s)}

MapSeq(s, F(_)) == [i \in 1..Len(s) |-> F(s[i])]

Put(m, key, v) == [x \in (DOMAIN m) \cup {key} |-> IF x = key THEN v ELSE m[x]]

EmptyMap == [x \in {} |-> 0]

RECURSIVE Count(_, _)
Count(s, x) == IF s = <<>> THEN 0
               ELSE (IF Head(s) = x THEN 1 ELSE 0) + Count(Tail(s), x)

\* --------------------------------------------------------- paths and URLs
NoTarget == [kind |-> "none", dir |-> "", file |-> "", norm |-> TRUE, id |-> 0]

\* a relative path as written in a body; norm = FALSE is a spelling such as
\* ../media/./a.png that resolves to the same file as ../media/a.png
RelPath(d, f, n) == [kind |-> "rel", dir |-> d, file |-> f, norm |-> n, id |-> 0]

\* the URL the server serves image i under; its last segment is the file name
ImageUrl(i, f) == [kind |-> "url", dir |-> "cdn", file |-> f, norm |-> TRUE, id |-> i]

ExternalUrl == [kind |-> "url", dir |-> "ext", file |-> "logo.png", norm |-> TRUE, id |-> 0]

\* path.resolve(emailsDir, relativePath)
Resolve(rel) == [dir |-> rel.dir, file |-> rel.file]

\* variant: the path relative to the directory of the file itself
RelativeToOwnDir(p) == RelPath("emails", p.file, TRUE)

\* path.relative(emailsDir, localPath)
Relative(p) == RelPath(p.dir, p.file, TRUE)

\* path.basename
Basename(url) == url.file

\* the files the operator keeps in media/: two that bodies can reference and
\* one that no email references
MediaDirectory == {"a.png", "b.png", "spare.png"}

\* path.join(configuration.directory, "media", filename)
MediaPath(f) == [dir |-> "media", file |-> f]

\* ------------------------------------------------------------ body tokens
Txt(v) == [k |-> "txt", alt |-> v, t |-> NoTarget]
Ws == [k |-> "ws", alt |-> "", t |-> NoTarget]
MARKDOWN_MODE_SIGIL == [k |-> "sigil", alt |-> "", t |-> NoTarget]
Img(a, target) == [k |-> "img", alt |-> a, t |-> target]
\* the three dashes "---" in a body (a Markdown thematic break)
Hr == [k |-> "hr", alt |-> "", t |-> NoTarget]

RECURSIVE TrimLeft(_)
TrimLeft(b) == IF b # <<>> /\ Head(b).k = "ws" THEN TrimLeft(Tail(b)) ELSE b

RECURSIVE TrimRight(_)
TrimRight(b) == IF b # <<>> /\ b[Len(b)].k = "ws"
                THEN TrimRight(SubSeq(b, 1, Len(b) - 1)) ELSE b

\* String.prototype.trim
Trim(b) == TrimRight(TrimLeft(b))

RECURSIVE ReplaceFirstSigil(_)
\* body.replace(MARKDOWN_MODE_SIGIL, ""): the first occurrence only
ReplaceFirstSigil(b) ==
  IF b = <<>> THEN <<>>
  ELSE IF Head(b) = MARKDOWN_MODE_SIGIL THEN Tail(b)
  ELSE <<Head(b)>> \o ReplaceFirstSigil(Tail(b))

\* ------------------------------------------------------------ email codec
FRONT_MATTER_FIELD_TO_DEFAULT_VALUE == [email_type |-> "public"]

\* an in-memory email record; mdate stands for the server-side timestamps
Email(i, subj, sl, ty, att, b, md) ==
  [id |-> i, subject |-> subj, slug |-> sl, email_type |-> ty,
   attachments |-> att, body |-> b, mdate |-> md]

\* a file of emails/: fm tells whether it has a front matter block
EmailFile(n, hasFm, i, subj, sl, ty, att, b) ==
  [name |-> n, fm |-> hasFm, id |-> i, subject |-> subj, slug |-> sl,
   email_type |-> ty, attachments |-> att, body |-> b]

\* serialize(email): only allow-listed, non-empty, non-default fields are
\* written; attachments and timestamps are not in FRONT_MATTER_FIELDS
serialize(email) ==
  [fm |-> TRUE,
   id |-> email.id,
   subject |-> email.subject,
   slug |-> email.slug,
   email_type |-> IF email.email_type = FRONT_MATTER_FIELD_TO_DEFAULT_VALUE.email_type
                  THEN "" ELSE email.email_type,
   attachments |-> "",
   body |-> ReplaceFirstSigil(email.body)]

\* Object.keys(parsedYAML).length > 0
HasKeys(file) ==
  file.id # 0 \/ file.subject # "" \/ file.slug # "" \/ file.email_type # ""
    \/ file.attachments # ""

\* deserialize(content).isValid
isValid(file) == file.fm /\ HasKeys(file)

RECURSIVE ThirdPart(_)
\* content.split("---")[2]: what follows the front matter, up to the next "---"
ThirdPart(b) ==
  IF b = <<>> \/ Head(b) = Hr THEN <<>> ELSE <<Head(b)>> \o ThirdPart(Tail(b))

\* deserialize(content).email for a valid file
deserialize(file) ==
  Email(file.id, file.subject, file.slug, file.email_type, file.attachments,
        Trim(ThirdPart(file.body)), 0)

\* the text of a file as readFile returns it
TextOf(file) ==
  [fm |-> file.fm, id |-> file.id, subject |-> file.subject, slug |-> file.slug,
   email_type |-> file.email_type, attachments |-> file.attachments,
   body |-> file.body]

\* a written file: name and text
FileOf(n, text) ==
  EmailFile(n, text.fm, text.id, text.subject, text.slug, text.email_type,
            text.attachments, text.body)

\* ------------------------------------------------ image reference resolver
\* findRelativeImageReferences: image references whose path starts neither
\* with http nor with //
findRelativeImageReferences(b) ==
  SelectSeq(b, LAMBDA tok : tok.k = "img" /\ tok.t.kind = "rel")

EntriesWithPath(imageMap, p) == {i \in DOMAIN imageMap : imageMap[i].localPath = p}

EntriesWithUrl(imageMap, u) == {i \in DOMAIN imageMap : imageMap[i].url = u}

\* Object.values(map).find(...): the first entry in key order
FirstOf(S) == CHOOSE i \in S : \A j \in S : i <= j

\* resolveRelativeImageReferences(body, emailsDir, imageMap)
resolveRelativeImageReferences(b, imageMap) ==
  MapSeq(b, LAMBDA tok :
    IF tok.k = "img" /\ tok.t.kind = "rel"
       /\ EntriesWithPath(imageMap, Resolve(tok.t)) # {}
    THEN Img(tok.alt, imageMap[FirstOf(EntriesWithPath(imageMap, Resolve(tok.t)))].url)
    ELSE tok)

\* variant: every absolute reference is pointed at media/<file name of the URL>
convertEveryAbsoluteImage(b, imageMap) ==
  MapSeq(b, LAMBDA tok :
    IF tok.k = "img" /\ tok.t.kind = "url"
    THEN Img(tok.alt, Relative(MediaPath(Basename(tok.t))))
    ELSE tok)

\* convertAbsoluteToRelativeImages(body, emailsDir, imageMap)
convertAbsoluteToRelativeImages(b, imageMap) ==
  MapSeq(b, LAMBDA tok :
    IF tok.k = "img" /\ tok.t.kind = "url"
       /\ EntriesWithUrl(imageMap, tok.t) # {}
    THEN Img(tok.alt, Relative(imageMap[FirstOf(EntriesWithUrl(imageMap, tok.t))].localPath))
    ELSE tok)

\* ------------------------------------------------------------- resources
\* the resource groups pull and push handle besides emails and images
BASE_RESOURCES == <<"automations", "newsletter", "snippets">>

\* RESOURCES of sync/index.ts, walked by the RESOURCES-loop pull command
RESOURCES == <<"automations", "emails", "images", "newsletter">>

\* a record of a base resource group (automation, newsletter, snippet)
BaseRec(i, n, c) == [id |-> i, name |-> n, content |-> c]

\* ------------------------------------------------------------------ state
VARIABLES
  remoteEmails,   \* server: the list GET /emails returns
  remoteImages,   \* server: the list GET /images returns
  remoteBase,     \* server: the records of each base resource group
  nextId,         \* server: the next id it assigns
  localFiles,     \* directory: the files of emails/
  localBase,      \* directory: the records of each base resource group
  syncFile,       \* directory: syncedImages of .buttondown.json
  runs,           \* number of runs started
  edits,          \* number of operator edits made
  kind,           \* the command of the current run
  pc,             \* position of performPush / performPull
  status,         \* reducer state: status
  stats,          \* reducer state: stats
  reducerThrew,   \* a reducer guard threw in this run
  syncRead,       \* push: syncedImages as read at the start of the run
  syncedImages,   \* the run's in-memory syncedImages
  localEmails,    \* push: result of LOCAL_EMAILS_RESOURCE.get
  k,              \* push: position in the upload loops
  remoteList,     \* push: result of REMOTE_EMAILS_RESOURCE.get
  changedEmails,  \* push: the emails handed to REMOTE_EMAILS_RESOURCE.set
  si,             \* REMOTE_EMAILS_RESOURCE.set: position in its loop
  updated,        \* REMOTE_EMAILS_RESOURCE.set: updated
  created,        \* REMOTE_EMAILS_RESOURCE.set: created
  bi,             \* position in the loop over resource groups
  fetchedImages,  \* pull: result of IMAGES_RESOURCE.remote.get
  written,        \* pull: names of the email files written in this run
  uploads,        \* log: the uploadImage calls of this run and their outcome
  emailWrites,    \* log: PATCH/POST requests on emails in this run
  baseWrites,     \* log: PATCH/POST/DELETE requests on base resources in this run
  registered,     \* log: the results handed to register_new_push / register_new_pull
  calls,          \* log: the get/set, state-file and upload calls of this run, in order
  faults,         \* number of requests the API has answered with a non-2xx status
  exitCode,       \* exit code of the process of the current run; NotExited while it runs
  unit,           \* the function exercised on its own: "pages", "state" or "none"
  pgTotal,        \* fetchAllPages: size of the remote collection
  pgPage,         \* fetchAllPages: page
  pgHasMore,      \* fetchAllPages: hasMore
  pgItems,        \* fetchAllPages: items
  pgRequests,     \* log: the page requests sent, in order
  content,        \* readSyncState: what .buttondown.json holds
  readResult,     \* readSyncState: whether it was called and what it returned
  input,          \* the argument of the function exercised on its own
  output,         \* what that function returned; NoOutput before the call
  lastIndex,      \* RELATIVE_IMAGE_REFERENCE_REGEX.lastIndex, counted in pieces of text
  scanLog,        \* log: content and result of each finished findRelativeImageReferences call
  yamlFile,       \* the text of automations.yaml; NoFile when it does not exist
  config,         \* the stored configuration of the CLI: its keys and values
  opLog           \* log: the calls made on yamlFile or config, in order

serverVars == <<remoteEmails, remoteImages, remoteBase, nextId>>
dirVars == <<localFiles, localBase, syncFile>>
envVars == <<runs, edits>>
reducerVars == <<status, stats, reducerThrew, registered>>
pushVars == <<syncRead, localEmails, k, remoteList, changedEmails, si, updated, created>>
pullVars == <<fetchedImages, written>>
logVars == <<uploads, emailWrites, baseWrites>>
procVars == <<faults, exitCode>>

programVars == <<remoteEmails, remoteImages, remoteBase, nextId, localFiles, localBase,
          syncFile, runs, edits, kind, pc, status, stats, reducerThrew, syncRead,
          syncedImages, localEmails, k, remoteList, changedEmails, si, updated,
          created, bi, fetchedImages, written, uploads,
          emailWrites, baseWrites, registered, calls, faults, exitCode>>
fnVars == <<input, output>>
regexVars == <<lastIndex, scanLog>>
storeVars == <<yamlFile, config, opLog>>
unitVars == <<unit, pgTotal, pgPage, pgHasMore, pgItems, pgRequests, content, readResult,
              fnVars, regexVars, storeVars>>

vars == <<programVars, unitVars>>

\* an entry of the call log
Call(side, op, res) == [side |-> side, op |-> op, res |-> res, ok |-> TRUE]

\* a call that threw, or whose request the API answered with a non-2xx status
FailedCall(side, op, res) == [side |-> side, op |-> op, res |-> res, ok |-> FALSE]

\* the process of the run has not ended
NotExited == -1

\* ---------------------------------------------------------------- reducers
\* reducer of commands/push.tsx
reducer(state, action) ==
  CASE action.type = "start_pushing" ->
         [status |-> "pushing", stats |-> EmptyMap, throws |-> FALSE]
    [] action.type = "register_new_push" ->
         IF state.status # "pushing"
         THEN [status |-> state.status, stats |-> state.stats, throws |-> TRUE]
         ELSE [status |-> "pushing",
               stats |-> Put(state.stats, action.resource, action.result),
               throws |-> FALSE]
    [] action.type = "finish_pushing" ->
         IF state.status # "pushing"
         THEN [status |-> state.status, stats |-> state.stats, throws |-> TRUE]
         ELSE [status |-> "pushed", stats |-> state.stats, throws |-> FALSE]
    [] action.type = "register_error" ->
         [status |-> "error", stats |-> EmptyMap, throws |-> FALSE]

\* reducer of commands/pull.tsx
pullReducer(state, action) ==
  CASE action.type = "start_pulling" ->
         [status |-> "pulling", stats |-> EmptyMap, throws |-> FALSE]
    [] action.type = "register_new_pull" ->
         IF state.status # "pulling"
         THEN [status |-> state.status, stats |-> state.stats, throws |-> TRUE]
         ELSE [status |-> "pulling",
               stats |-> Put(state.stats, action.resource, action.result),
               throws |-> FALSE]
    [] action.type = "finish_pulling" ->
         IF state.status # "pulling"
         THEN [status |-> state.status, stats |-> state.stats, throws |-> TRUE]
         ELSE [status |-> "pulled", stats |-> state.stats, throws |-> FALSE]
    [] action.type = "register_error" ->
         [status |-> "error", stats |-> EmptyMap, throws |-> FALSE]

Act(ty, res, result) == [type |-> ty, resource |-> res, result |-> result]

NoResult == [updated |-> 0, created |-> 0, deleted |-> 0, failed |-> 0]

\* dispatch(action): a reducer that throws leaves the state as it was
dispatch(action) ==
  LET r == IF kind = "push"
           THEN reducer([status |-> status, stats |-> stats], action)
           ELSE pullReducer([status |-> status, stats |-> stats], action)
  IN /\ IF r.throws
        THEN reducerThrew' = TRUE /\ UNCHANGED <<status, stats>>
        ELSE status' = r.status /\ stats' = r.stats /\ UNCHANGED reducerThrew
     /\ registered' = IF action.type \in {"register_new_push", "register_new_pull"}
                      THEN Put(registered, action.resource, action.result)
                      ELSE registered

\* variant: the error is registered and the run goes on where it was
catchErrorAndGoOn ==
  /\ dispatch(Act("register_error", "", NoResult))
  /\ pc' = pc

\* catch (error_) { dispatch({type: "register_error"}) }: the run ends
catchError ==
  /\ dispatch(Act("register_error", "", NoResult))
  /\ pc' = "done"

\* ------------------------------------------------------------- remote API
\* what the server stores after PATCH /emails/{id}: keys the request does not
\* carry keep their value; an unknown id changes nothing (404)
ServerPatchEmail(list, e) ==
  [i \in 1..Len(list) |->
     IF list[i].id # e.id THEN list[i]
     ELSE Email(e.id,
                IF e.subject = "" THEN list[i].subject ELSE e.subject,
                IF e.slug = "" THEN list[i].slug ELSE e.slug,
                IF e.email_type = "" THEN list[i].email_type ELSE e.email_type,
                IF e.attachments = "" THEN list[i].attachments ELSE e.attachments,
                e.body,
                list[i].mdate)]

\* what the server stores after POST /emails
ServerPostEmail(list, e, newId) ==
  Append(list, Email(newId, e.subject, e.slug,
                     IF e.email_type = "" THEN "public" ELSE e.email_type,
                     e.attachments, e.body, 1))

\* PATCH /{group}/{id} of a base resource
ServerPatchBase(list, r) ==
  [i \in 1..Len(list) |-> IF list[i].id = r.id THEN r ELSE list[i]]

\* ----------------------------------------------------------- local.get/set
\* LOCAL_EMAILS_RESOURCE.get: the valid files of emails/, deserialized
LOCAL_EMAILS_RESOURCE_get(files) == MapSeq(SelectSeq(files, isValid), deserialize)

\* writeFile(path.join(dir, name), text): replaces the file of that name
WriteFile(files, n, text) ==
  IF \E i \in 1..Len(files) : files[i].name = n
  THEN [i \in 1..Len(files) |-> IF files[i].name = n THEN FileOf(n, text) ELSE files[i]]
  ELSE Append(files, FileOf(n, text))

\* the file name LOCAL_EMAILS_RESOURCE.set writes an email to: slug || id
EmailFileName(email) == IF email.slug # "" THEN email.slug ELSE ToString(email.id)

RECURSIVE LOCAL_EMAILS_RESOURCE_set(_, _)
\* LOCAL_EMAILS_RESOURCE.set: one file per email, in list order
LOCAL_EMAILS_RESOURCE_set(files, value) ==
  IF value = <<>> THEN files
  ELSE LOCAL_EMAILS_RESOURCE_set(
         WriteFile(files, EmailFileName(Head(value)), serialize(Head(value))),
         Tail(value))

RECURSIVE WriteBaseRecords(_, _)
\* local.set of a base group: one file per record, named after the record
WriteBaseRecords(recs, value) ==
  IF value = <<>> THEN recs
  ELSE WriteBaseRecords(
         IF \E i \in 1..Len(recs) : recs[i].name = Head(value).name
         THEN [i \in 1..Len(recs) |->
                 IF recs[i].name = Head(value).name THEN Head(value) ELSE recs[i]]
         ELSE Append(recs, Head(value)),
         Tail(value))

\* -------------------------------------------------------------- state file
\* what .buttondown.json can hold: nothing (no file), text that is not JSON,
\* or a JSON value; of an object, whether it has the key syncedImages and
\* what is under it
MapValue(map) == [type |-> "map", map |-> map]

NullValue == [type |-> "null", map |-> EmptyMap]

StringValue == [type |-> "string", map |-> EmptyMap]

Absent == [kind |-> "absent", type |-> "", hasKey |-> FALSE, val |-> NullValue]

NotJson == [kind |-> "text", type |-> "", hasKey |-> FALSE, val |-> NullValue]

Json(type, hasKey, val) == [kind |-> "json", type |-> type, hasKey |-> hasKey, val |-> val]

\* JSON.stringify(state, null, 2) as writeSyncState writes it
StateFile(map) == Json("object", TRUE, MapValue(map))

DEFAULT_STATE == [syncedImages |-> MapValue(EmptyMap)]

\* readSyncState: readFile and JSON.parse are inside the try, the catch
\* returns the default; otherwise the parsed value is spread over the default
readSyncState(c) ==
  IF c.kind # "json" THEN DEFAULT_STATE
  ELSE IF c.type = "object" /\ c.hasKey THEN [syncedImages |-> c.val]
  ELSE DEFAULT_STATE

NotRead == [done |-> FALSE, state |-> DEFAULT_STATE]

\* ------------------------------------------------------------------- push
RECURSIVE AllRefs(_)
\* the absolute paths the two upload loops of performPush visit, in order
AllRefs(emails) ==
  IF emails = <<>> THEN <<>>
  ELSE MapSeq(findRelativeImageReferences(Head(emails).body),
              LAMBDA tok : Resolve(tok.t))
       \o AllRefs(Tail(emails))

\* variant: the lookup reads the state file instead of the map the loop updates
alreadySyncedOnDisk(images, absolutePath) == EntriesWithPath(syncFile, absolutePath) # {}

\* Object.values(syncedImages).find((img) => img.localPath === absolutePath)
alreadySynced(images, absolutePath) == EntriesWithPath(images, absolutePath) # {}

\* variant: the entry records the place a pull would download the file to
SyncedImageInMedia(i, p, u, f) ==
  [id |-> i, localPath |-> MediaPath(f), url |-> u, filename |-> f]

\* the entry performPush stores for an upload result
SyncedImage(i, p, u, f) == [id |-> i, localPath |-> p, url |-> u, filename |-> f]

\* imageMap: the entries of syncedImages cut down to localPath and url
ImageMapOf(images) ==
  [i \in DOMAIN images |-> [localPath |-> images[i].localPath, url |-> images[i].url]]

\* remoteEmailsById.get(id): in a Map the last entry of a key wins
HasRemote(list, id) == \E i \in 1..Len(list) : list[i].id = id

RemoteById(list, id) ==
  list[CHOOSE i \in 1..Len(list) :
         list[i].id = id /\ \A j \in 1..Len(list) : list[j].id = id => j <= i]

\* localEmails.map(...): bodies with their relative references resolved
ResolvedEmails(emails, imageMap) ==
  MapSeq(emails, LAMBDA e :
    [e EXCEPT !.body = resolveRelativeImageReferences(e.body, imageMap)])

\* the predicate of the changedEmails filter
isChanged(email, list) ==
  IF email.id = 0 THEN TRUE
  ELSE IF ~HasRemote(list, email.id) THEN TRUE
  ELSE serialize(email) # serialize(RemoteById(list, email.id))

\* variant: every local email is handed to set, as before the diff was added
ChangedEmailsUnfiltered(emails, imageMap, list) == ResolvedEmails(emails, imageMap)

\* changedEmails of performPush
ChangedEmails(emails, imageMap, list) ==
  SelectSeq(ResolvedEmails(emails, imageMap), LAMBDA e : isChanged(e, list))

ResetLogs ==
  /\ uploads' = <<>>
  /\ emailWrites' = <<>>
  /\ baseWrites' = <<>>

\* performPush up to the upload loops: start_pushing, readSyncState,
\* LOCAL_EMAILS_RESOURCE.get
StartPush ==
  /\ pc = "idle" \/ exitCode # NotExited
  /\ runs < MaxRuns
  /\ runs' = runs + 1
  /\ kind' = "push"
  /\ status' = reducer([status |-> "not_started", stats |-> EmptyMap],
                       Act("start_pushing", "", NoResult)).status
  /\ stats' = EmptyMap
  /\ reducerThrew' = FALSE
  /\ registered' = EmptyMap
  /\ syncRead' = readSyncState(StateFile(syncFile)).syncedImages.map
  /\ syncedImages' = readSyncState(StateFile(syncFile)).syncedImages.map
  /\ localEmails' = LOCAL_EMAILS_RESOURCE_get(localFiles)
  /\ k' = 1
  /\ remoteList' = <<>>
  /\ changedEmails' = <<>>
  /\ si' = 1
  /\ updated' = 0
  /\ created' = 0
  /\ bi' = 1
  /\ pc' = "upload"
  /\ ResetLogs
  /\ UNCHANGED <<serverVars, dirVars, edits, pullVars>>
  /\ calls' = <<Call("state", "read", ""), Call("local", "get", "emails")>>
  /\ exitCode' = NotExited
  /\ UNCHANGED faults
  /\ UNCHANGED unitVars

\* one pass of the inner upload loop on a reference that is already synced
SkipSyncedImage ==
  /\ kind = "push" /\ pc = "upload"
  /\ k <= Len(AllRefs(localEmails))
  /\ alreadySynced(syncedImages, AllRefs(localEmails)[k])
  /\ k' = k + 1
  /\ UNCHANGED <<serverVars, dirVars, envVars, kind, pc, reducerVars, syncRead,
                 syncedImages, localEmails, remoteList, changedEmails, si,
                 updated, created, bi, pullVars, logVars>>
  /\ UNCHANGED <<calls, procVars>>
  /\ UNCHANGED unitVars

\* one pass of the inner upload loop: uploadImage answered 2xx
UploadImage ==
  /\ kind = "push" /\ pc = "upload"
  /\ k <= Len(AllRefs(localEmails))
  /\ ~alreadySynced(syncedImages, AllRefs(localEmails)[k])
  /\ LET absolutePath == AllRefs(localEmails)[k]
         url == ImageUrl(nextId, absolutePath.file)
     IN /\ syncedImages' = Put(syncedImages, nextId,
                               SyncedImage(nextId, absolutePath, url, absolutePath.file))
        /\ remoteImages' = Append(remoteImages, [id |-> nextId, image |-> url])
        /\ uploads' = Append(uploads, [id |-> nextId, path |-> absolutePath, ok |-> TRUE])
  /\ nextId' = nextId + 1
  /\ k' = k + 1
  /\ UNCHANGED <<remoteEmails, remoteBase, dirVars, envVars, kind, pc, reducerVars,
                 syncRead, localEmails, remoteList, changedEmails, si, updated,
                 created, bi, pullVars, emailWrites, baseWrites>>
  /\ calls' = calls \o <<Call("remote", "upload", "images")>>
  /\ UNCHANGED procVars
  /\ UNCHANGED unitVars

\* one pass of the inner upload loop: uploadImage throws (unreadable file or
\* non-2xx answer); the exception reaches the catch of performPush
UploadImageFails ==
  /\ kind = "push" /\ pc = "upload"
  /\ k <= Len(AllRefs(localEmails))
  /\ ~alreadySynced(syncedImages, AllRefs(localEmails)[k])
  /\ uploads' = Append(uploads, [id |-> 0, path |-> AllRefs(localEmails)[k], ok |-> FALSE])
  /\ catchError
  /\ UNCHANGED <<serverVars, dirVars, envVars, kind, pushVars, syncedImages, bi,
                 pullVars, emailWrites, baseWrites>>
  /\ faults < MaxFaults
  /\ calls' = calls \o <<FailedCall("remote", "upload", "images")>>
  /\ faults' = faults + 1
  /\ UNCHANGED exitCode
  /\ UNCHANGED unitVars

\* steps 4 and 5 of performPush: imageMap, REMOTE_EMAILS_RESOURCE.get, the
\* changedEmails filter
DiffEmails ==
  /\ kind = "push" /\ pc = "upload"
  /\ k > Len(AllRefs(localEmails))
  /\ remoteList' = remoteEmails
  /\ changedEmails' = ChangedEmails(localEmails, ImageMapOf(syncedImages), remoteEmails)
  /\ si' = 1
  /\ updated' = 0
  /\ created' = 0
  /\ pc' = "set_emails"
  /\ UNCHANGED <<serverVars, dirVars, envVars, kind, reducerVars, syncRead,
                 syncedImages, localEmails, k, bi, pullVars, logVars>>
  /\ calls' = calls \o <<Call("remote", "get", "emails"), Call("remote", "set", "emails")>>
  /\ UNCHANGED procVars
  /\ UNCHANGED unitVars

\* steps 4 and 5 of performPush when GET /emails is answered with a non-2xx
\* status: response.data is undefined, the page loop ends and get returns the
\* empty list
DiffEmailsListFails ==
  /\ kind = "push" /\ pc = "upload"
  /\ k > Len(AllRefs(localEmails))
  /\ faults < MaxFaults
  /\ faults' = faults + 1
  /\ remoteList' = <<>>
  /\ changedEmails' = ChangedEmails(localEmails, ImageMapOf(syncedImages), <<>>)
  /\ si' = 1
  /\ updated' = 0
  /\ created' = 0
  /\ pc' = "set_emails"
  /\ calls' = calls \o <<FailedCall("remote", "get", "emails"),
                         Call("remote", "set", "emails")>>
  /\ UNCHANGED <<serverVars, dirVars, envVars, kind, reducerVars, syncRead,
                 syncedImages, localEmails, k, bi, pullVars, logVars, exitCode>>
  /\ UNCHANGED unitVars

\* one pass of the loop of REMOTE_EMAILS_RESOURCE.set: PATCH or POST
SetEmail ==
  /\ kind = "push" /\ pc = "set_emails"
  /\ si <= Len(changedEmails)
  /\ LET email == changedEmails[si]
     IN IF email.id # 0
        THEN /\ emailWrites' = Append(emailWrites, [verb |-> "PATCH", email |-> email, ok |-> TRUE])
             /\ remoteEmails' = ServerPatchEmail(remoteEmails, email)
             /\ updated' = updated + 1
             /\ UNCHANGED <<created, nextId>>
        ELSE /\ emailWrites' = Append(emailWrites, [verb |-> "POST", email |-> email, ok |-> TRUE])
             /\ remoteEmails' = ServerPostEmail(remoteEmails, email, nextId)
             /\ nextId' = nextId + 1
             /\ created' = created + 1
             /\ UNCHANGED updated
  /\ si' = si + 1
  /\ UNCHANGED <<remoteImages, remoteBase, dirVars, envVars, kind, pc, reducerVars,
                 syncRead, syncedImages, localEmails, k, remoteList, changedEmails,
                 bi, pullVars, uploads, baseWrites>>
  /\ UNCHANGED <<calls, procVars>>
  /\ UNCHANGED unitVars

\* one pass of the loop of REMOTE_EMAILS_RESOURCE.set whose PATCH or POST is
\* answered with a non-2xx status: the client returns {error}, nothing looks
\* at it, the counter is incremented and the loop goes on
SetEmailFails ==
  /\ kind = "push" /\ pc = "set_emails"
  /\ si <= Len(changedEmails)
  /\ faults < MaxFaults
  /\ faults' = faults + 1
  /\ LET email == changedEmails[si]
     IN IF email.id # 0
        THEN /\ emailWrites' = Append(emailWrites,
                                      [verb |-> "PATCH", email |-> email, ok |-> FALSE])
             /\ updated' = updated + 1
             /\ UNCHANGED created
        ELSE /\ emailWrites' = Append(emailWrites,
                                      [verb |-> "POST", email |-> email, ok |-> FALSE])
             /\ created' = created + 1
             /\ UNCHANGED updated
  /\ si' = si + 1
  /\ UNCHANGED <<serverVars, dirVars, envVars, kind, pc, reducerVars, syncRead,
                 syncedImages, localEmails, k, remoteList, changedEmails, bi,
                 pullVars, uploads, baseWrites, calls, exitCode>>
  /\ UNCHANGED unitVars

\* the return of REMOTE_EMAILS_RESOURCE.set and register_new_push for emails
RegisterEmails ==
  /\ kind = "push" /\ pc = "set_emails"
  /\ si > Len(changedEmails)
  /\ dispatch(Act("register_new_push", "emails",
                  [updated |-> updated, created |-> created, deleted |-> 0, failed |-> 0]))
  /\ bi' = 1
  /\ pc' = "base"
  /\ UNCHANGED <<serverVars, dirVars, envVars, kind, pushVars, syncedImages,
                 pullVars, logVars>>
  /\ UNCHANGED <<calls, procVars>>
  /\ UNCHANGED unitVars

\* variant: set leaves out the records the server already holds
BaseRequestsChangedOnly(group, value, remote) ==
  MapSeq(SelectSeq(value, LAMBDA r : r \notin Range(remote)), LAMBDA r :
    [verb |-> IF r.id # 0 THEN "PATCH" ELSE "POST", res |-> group, rec |-> r,
     equal |-> FALSE])

\* the requests remote.set of a list group (automations, snippets) issues:
\* PATCH for a record with an id, POST otherwise; equal notes whether the
\* server held the very same record when set was called
BaseRequests(group, value, remote) ==
  MapSeq(value, LAMBDA r :
    [verb |-> IF r.id # 0 THEN "PATCH" ELSE "POST", res |-> group, rec |-> r,
     equal |-> r \in Range(remote)])

RECURSIVE ServerApplyBase(_, _, _)
\* the server's records of a group after those requests; POST assigns ids
ServerApplyBase(list, value, newId) ==
  IF value = <<>> THEN list
  ELSE IF Head(value).id # 0
       THEN ServerApplyBase(ServerPatchBase(list, Head(value)), Tail(value), newId)
       ELSE ServerApplyBase(Append(list, [Head(value) EXCEPT !.id = newId]),
                            Tail(value), newId + 1)

NumWithId(value) == Len(SelectSeq(value, LAMBDA r : r.id # 0))

\* step 7 of performPush for a list group: local.get, remote.set,
\* register_new_push
PushListGroup ==
  /\ kind = "push" /\ pc = "base"
  /\ bi <= Len(BASE_RESOURCES)
  /\ BASE_RESOURCES[bi] # "newsletter"
  /\ LET group == BASE_RESOURCES[bi]
         data == localBase[group]
     IN /\ baseWrites' = baseWrites \o BaseRequests(group, data, remoteBase[group])
        /\ remoteBase' = [remoteBase EXCEPT ![group] = ServerApplyBase(@, data, nextId)]
        /\ nextId' = nextId + (Len(data) - NumWithId(data))
        /\ dispatch(Act("register_new_push", group,
                        [updated |-> NumWithId(data),
                         created |-> Len(data) - NumWithId(data),
                         deleted |-> 0, failed |-> 0]))
  /\ bi' = bi + 1
  /\ UNCHANGED <<remoteEmails, remoteImages, dirVars, envVars, kind, pc, pushVars,
                 syncedImages, pullVars, uploads, emailWrites>>
  /\ calls' = calls \o <<Call("local", "get", BASE_RESOURCES[bi]), Call("remote", "set", BASE_RESOURCES[bi])>>
  /\ UNCHANGED procVars
  /\ UNCHANGED unitVars

HasId(list, id) == \E i \in 1..Len(list) : list[i].id = id

\* the records of localItems setRemotely PATCHes, leaves alone, POSTs, and the
\* records of remoteItems it DELETEs
SetRemotelyUpdates(remoteItems, localItems) ==
  SelectSeq(localItems, LAMBDA r : HasId(remoteItems, r.id) /\ r \notin Range(remoteItems))

SetRemotelyNoops(remoteItems, localItems) ==
  SelectSeq(localItems, LAMBDA r : HasId(remoteItems, r.id) /\ r \in Range(remoteItems))

SetRemotelyCreations(remoteItems, localItems) ==
  SelectSeq(localItems, LAMBDA r : ~HasId(remoteItems, r.id))

SetRemotelyDeletions(remoteItems, localItems) ==
  SelectSeq(remoteItems, LAMBDA r : ~HasId(localItems, r.id))

\* the requests setRemotely issues for a group, in order
SetRemotelyRequests(group, remoteItems, localItems) ==
  MapSeq(SelectSeq(localItems, LAMBDA r : r \notin Range(remoteItems)), LAMBDA r :
    [verb |-> IF HasId(remoteItems, r.id) THEN "PATCH" ELSE "POST", res |-> group,
     rec |-> r, equal |-> FALSE])
  \o MapSeq(SetRemotelyDeletions(remoteItems, localItems), LAMBDA r :
       [verb |-> "DELETE", res |-> group, rec |-> r, equal |-> FALSE])

\* setRemotely: the OperationResult it returns
setRemotely(remoteItems, localItems) ==
  [updates |-> Len(SetRemotelyUpdates(remoteItems, localItems)),
   creations |-> Len(SetRemotelyCreations(remoteItems, localItems)),
   noops |-> Len(SetRemotelyNoops(remoteItems, localItems)),
   deletions |-> Len(SetRemotelyDeletions(remoteItems, localItems))]

RECURSIVE ServerPostAll(_, _, _)
\* the server's records after a POST for each record of value
ServerPostAll(list, value, newId) ==
  IF value = <<>> THEN list
  ELSE ServerPostAll(Append(list, [Head(value) EXCEPT !.id = newId]), Tail(value),
                     newId + 1)

RECURSIVE ServerPatchAll(_, _)
ServerPatchAll(list, value) ==
  IF value = <<>> THEN list
  ELSE ServerPatchAll(ServerPatchBase(list, Head(value)), Tail(value))

\* DELETE /{group}/{id} for each record of value
ServerDeleteAll(list, value) == SelectSeq(list, LAMBDA r : ~HasId(value, r.id))

\* step 7 of performPush for a group whose remote.set is setRemotely, handed
\* the list remote.get returns
PushGroupSetRemotely ==
  /\ kind = "push" /\ pc = "base"
  /\ bi <= Len(BASE_RESOURCES)
  /\ BASE_RESOURCES[bi] = "automations"
  /\ LET group == BASE_RESOURCES[bi]
         localItems == localBase[group]
         remoteItems == remoteBase[group]
     IN /\ baseWrites' = baseWrites \o SetRemotelyRequests(group, remoteItems, localItems)
        /\ remoteBase' =
             [remoteBase EXCEPT ![group] =
                ServerDeleteAll(
                  ServerPostAll(
                    ServerPatchAll(@, SetRemotelyUpdates(remoteItems, localItems)),
                    SetRemotelyCreations(remoteItems, localItems), nextId),
                  SetRemotelyDeletions(remoteItems, localItems))]
        /\ nextId' = nextId + Len(SetRemotelyCreations(remoteItems, localItems))
        /\ dispatch(Act("register_new_push", group, setRemotely(remoteItems, localItems)))
  /\ bi' = bi + 1
  /\ calls' = calls \o <<Call("local", "get", BASE_RESOURCES[bi]),
                         Call("remote", "set", BASE_RESOURCES[bi])>>
  /\ UNCHANGED <<remoteEmails, remoteImages, dirVars, envVars, kind, pc, pushVars,
                 syncedImages, pullVars, uploads, emailWrites, procVars>>
  /\ UNCHANGED unitVars

\* the automations REMOTE_AUTOMATIONS_RESOURCE.set PATCHes: those with an id
\* the server knows and a content that differs
ClassifiedUpdates(allAutomations, value) ==
  SelectSeq(value, LAMBDA r :
    r.id # 0 /\ HasId(allAutomations, r.id) /\ r \notin Range(allAutomations))

ClassifiedCreations(value) == SelectSeq(value, LAMBDA r : r.id = 0)

\* step 7 of performPush for automations with the REMOTE_AUTOMATIONS_RESOURCE.set
\* that fetches the remote list and classifies: unchanged automations and
\* automations whose id the server does not know are noops, nothing is deleted
PushAutomationsClassified ==
  /\ kind = "push" /\ pc = "base"
  /\ bi <= Len(BASE_RESOURCES)
  /\ BASE_RESOURCES[bi] = "automations"
  /\ LET value == localBase["automations"]
         allAutomations == remoteBase["automations"]
         updates == ClassifiedUpdates(allAutomations, value)
         creations == ClassifiedCreations(value)
     IN /\ baseWrites' = baseWrites
             \o MapSeq(updates, LAMBDA r :
                  [verb |-> "PATCH", res |-> "automations", rec |-> r, equal |-> FALSE])
             \o MapSeq(creations, LAMBDA r :
                  [verb |-> "POST", res |-> "automations", rec |-> r, equal |-> FALSE])
        /\ remoteBase' =
             [remoteBase EXCEPT !["automations"] =
                ServerPostAll(ServerPatchAll(@, updates), creations, nextId)]
        /\ nextId' = nextId + Len(creations)
        /\ dispatch(Act("register_new_push", "automations",
                        [updates |-> Len(updates), creations |-> Len(creations),
                         noops |-> Len(value) - Len(updates) - Len(creations),
                         deletions |-> 0]))
  /\ bi' = bi + 1
  /\ calls' = calls \o <<Call("local", "get", "automations"),
                         Call("remote", "set", "automations")>>
  /\ UNCHANGED <<remoteEmails, remoteImages, dirVars, envVars, kind, pc, pushVars,
                 syncedImages, pullVars, uploads, emailWrites, procVars>>
  /\ UNCHANGED unitVars

\* step 7 of performPush for the newsletter: LOCAL_NEWSLETTER_RESOURCE.get,
\* REMOTE_NEWSLETTER_RESOURCE.set (always one PATCH), register_new_push
PushNewsletter ==
  /\ kind = "push" /\ pc = "base"
  /\ bi <= Len(BASE_RESOURCES)
  /\ BASE_RESOURCES[bi] = "newsletter"
  /\ localBase["newsletter"] # <<>>
  /\ LET value == localBase["newsletter"][1]
     IN /\ baseWrites' = Append(baseWrites,
                                [verb |-> "PATCH", res |-> "newsletter", rec |-> value,
                                 equal |-> value \in Range(remoteBase["newsletter"])])
        /\ remoteBase' = [remoteBase EXCEPT !["newsletter"] = ServerPatchBase(@, value)]
  /\ dispatch(Act("register_new_push", "newsletter",
                  [updates |-> 1, creations |-> 0, noops |-> 0, deletions |-> 0]))
  /\ bi' = bi + 1
  /\ UNCHANGED <<remoteEmails, remoteImages, nextId, dirVars, envVars, kind, pc,
                 pushVars, syncedImages, pullVars, uploads, emailWrites>>
  /\ calls' = calls \o <<Call("local", "get", "newsletter"), Call("remote", "set", "newsletter")>>
  /\ UNCHANGED procVars
  /\ UNCHANGED unitVars

\* LOCAL_NEWSLETTER_RESOURCE.get on a directory without newsletter.json:
\* readFile throws
PushNewsletterMissing ==
  /\ kind = "push" /\ pc = "base"
  /\ bi <= Len(BASE_RESOURCES)
  /\ BASE_RESOURCES[bi] = "newsletter"
  /\ localBase["newsletter"] = <<>>
  /\ catchError
  /\ UNCHANGED <<serverVars, dirVars, envVars, kind, pushVars, syncedImages, bi,
                 pullVars, logVars>>
  /\ calls' = calls \o <<FailedCall("local", "get", "newsletter")>>
  /\ UNCHANGED procVars
  /\ UNCHANGED unitVars

\* step 8 of performPush: writeSyncState, finish_pushing
WriteSyncStatePush ==
  /\ kind = "push" /\ pc = "base"
  /\ bi > Len(BASE_RESOURCES)
  /\ syncFile' = syncedImages
  /\ dispatch(Act("finish_pushing", "", NoResult))
  /\ pc' = "done"
  /\ UNCHANGED <<serverVars, localFiles, localBase, envVars, kind, pushVars,
                 syncedImages, bi, pullVars, logVars>>
  /\ calls' = calls \o <<Call("state", "write", "")>>
  /\ UNCHANGED procVars
  /\ UNCHANGED unitVars

\* ------------------------------------------------------------------- pull
\* performPull up to its first loop: start_pulling
StartPull ==
  /\ pc = "idle" \/ exitCode # NotExited
  /\ runs < MaxRuns
  /\ runs' = runs + 1
  /\ kind' = "pull"
  /\ status' = pullReducer([status |-> "not_started", stats |-> EmptyMap],
                           Act("start_pulling", "", NoResult)).status
  /\ stats' = EmptyMap
  /\ reducerThrew' = FALSE
  /\ registered' = EmptyMap
  /\ syncedImages' = EmptyMap
  /\ fetchedImages' = <<>>
  /\ written' = {}
  /\ bi' = 1
  /\ pc' = "pull_base"
  /\ ResetLogs
  /\ UNCHANGED <<serverVars, dirVars, edits, pushVars>>
  /\ calls' = <<>>
  /\ exitCode' = NotExited
  /\ UNCHANGED faults
  /\ UNCHANGED unitVars

\* remote.get of a base group: the list, or for the newsletter the first
\* newsletter or null
BaseRemoteGet(group) == remoteBase[group]

\* local.set of a base group and the result it returns
BaseLocalSet(group, data) ==
  IF group = "newsletter" THEN <<data[1]>> ELSE WriteBaseRecords(localBase[group], data)

BaseLocalResult(group, data) ==
  IF group = "newsletter"
  THEN [updates |-> 1, creations |-> 0, noops |-> 0, deletions |-> 0]
  ELSE [updated |-> Len(data), created |-> 0, deleted |-> 0, failed |-> 0]

\* step 1 of performPull for one base group: remote.get, local.set,
\* register_new_pull
PullBaseGroup ==
  /\ kind = "pull" /\ pc = "pull_base"
  /\ bi <= Len(BASE_RESOURCES)
  /\ LET group == BASE_RESOURCES[bi]
         data == BaseRemoteGet(group)
     IN IF group = "newsletter" /\ data = <<>>
        THEN UNCHANGED <<localBase, reducerVars>>
        ELSE /\ localBase' = [localBase EXCEPT ![group] = BaseLocalSet(group, data)]
             /\ dispatch(Act("register_new_pull", group, BaseLocalResult(group, data)))
  /\ bi' = bi + 1
  /\ UNCHANGED <<serverVars, localFiles, syncFile, envVars, kind, pc, pushVars,
                 syncedImages, pullVars, logVars>>
  /\ calls' = calls \o (IF BASE_RESOURCES[bi] = "newsletter" /\ BaseRemoteGet("newsletter") = <<>>
                       THEN <<Call("remote", "get", BASE_RESOURCES[bi])>>
                       ELSE <<Call("remote", "get", BASE_RESOURCES[bi]),
                              Call("local", "set", BASE_RESOURCES[bi])>>)
  /\ UNCHANGED procVars
  /\ UNCHANGED unitVars

RECURSIVE SyncedFromRemote(_, _)
\* the loop of performPull that builds syncedImages from the remote images
SyncedFromRemote(images, acc) ==
  IF images = <<>> THEN acc
  ELSE SyncedFromRemote(
         Tail(images),
         Put(acc, Head(images).id,
             SyncedImage(Head(images).id,
                         MediaPath(Basename(Head(images).image)),
                         Head(images).image,
                         Basename(Head(images).image))))

\* step 2 of performPull: IMAGES_RESOURCE.remote.get, local.set (download to
\* media/), register_new_pull, syncedImages
PullImages ==
  /\ kind = "pull" /\ pc = "pull_base"
  /\ bi > Len(BASE_RESOURCES)
  /\ fetchedImages' = remoteImages
  /\ syncedImages' = SyncedFromRemote(remoteImages, EmptyMap)
  /\ dispatch(Act("register_new_pull", "images", NoResult))
  /\ pc' = "pull_emails"
  /\ UNCHANGED <<serverVars, dirVars, envVars, kind, pushVars, bi, written, logVars>>
  /\ calls' = calls \o <<Call("remote", "get", "images"), Call("local", "set", "images")>>
  /\ UNCHANGED procVars
  /\ UNCHANGED unitVars

\* step 2 of performPull when a download fails: fetch throws
PullImagesFails ==
  /\ kind = "pull" /\ pc = "pull_base"
  /\ bi > Len(BASE_RESOURCES)
  /\ remoteImages # <<>>
  /\ fetchedImages' = remoteImages
  /\ catchError
  /\ UNCHANGED <<serverVars, dirVars, envVars, kind, pushVars, syncedImages, bi,
                 written, logVars>>
  /\ faults < MaxFaults
  /\ calls' = calls \o <<Call("remote", "get", "images"), FailedCall("local", "set", "images")>>
  /\ faults' = faults + 1
  /\ UNCHANGED exitCode
  /\ UNCHANGED unitVars

\* variant: the bodies are written as the API returned them
ProcessedEmailsAsFetched(emails, imageMap) == emails

\* processedEmails of performPull
ProcessedEmails(emails, imageMap) ==
  MapSeq(emails, LAMBDA e :
    [e EXCEPT !.body = convertAbsoluteToRelativeImages(e.body, imageMap)])

\* step 3 of performPull: REMOTE_EMAILS_RESOURCE.get, conversion of the
\* bodies, LOCAL_EMAILS_RESOURCE.set, register_new_pull
PullEmails ==
  /\ kind = "pull" /\ pc = "pull_emails"
  /\ LET processedEmails == ProcessedEmails(remoteEmails, ImageMapOf(syncedImages))
     IN /\ localFiles' = LOCAL_EMAILS_RESOURCE_set(localFiles, processedEmails)
        /\ written' = {EmailFileName(e) : e \in Range(processedEmails)}
        /\ dispatch(Act("register_new_pull", "emails",
                        [updated |-> Len(processedEmails), created |-> 0,
                         deleted |-> 0, failed |-> 0]))
  /\ pc' = "pull_write"
  /\ UNCHANGED <<serverVars, localBase, syncFile, envVars, kind, pushVars,
                 syncedImages, bi, fetchedImages, logVars>>
  /\ calls' = calls \o <<Call("remote", "get", "emails"), Call("local", "set", "emails")>>
  /\ UNCHANGED procVars
  /\ UNCHANGED unitVars

\* step 3 of performPull when GET /emails is answered with a non-2xx status:
\* get returns the empty list, which is truthy, so set writes no file and the
\* run goes on
PullEmailsListFails ==
  /\ kind = "pull" /\ pc = "pull_emails"
  /\ faults < MaxFaults
  /\ faults' = faults + 1
  /\ written' = {}
  /\ dispatch(Act("register_new_pull", "emails", NoResult))
  /\ pc' = "pull_write"
  /\ calls' = calls \o <<FailedCall("remote", "get", "emails"),
                         Call("local", "set", "emails")>>
  /\ UNCHANGED <<serverVars, dirVars, envVars, kind, pushVars, syncedImages, bi,
                 fetchedImages, logVars, exitCode>>
  /\ UNCHANGED unitVars

\* step 4 of performPull: writeSyncState, finish_pulling
WriteSyncStatePull ==
  /\ kind = "pull" /\ pc = "pull_write"
  /\ syncFile' = syncedImages
  /\ dispatch(Act("finish_pulling", "", NoResult))
  /\ pc' = "done"
  /\ UNCHANGED <<serverVars, localFiles, localBase, envVars, kind, pushVars,
                 syncedImages, bi, pullVars, logVars>>
  /\ calls' = calls \o <<Call("state", "write", "")>>
  /\ UNCHANGED procVars
  /\ UNCHANGED unitVars

\* ------------------------------------------- pull, the RESOURCES-loop command
\* Pull of the command that walks RESOURCES: the component is mounted with
\* status not_started and performPull dispatches no start action
StartPullAll ==
  /\ pc = "idle" \/ exitCode # NotExited
  /\ runs < MaxRuns
  /\ runs' = runs + 1
  /\ kind' = "pullAll"
  /\ status' = "not_started"
  /\ stats' = EmptyMap
  /\ reducerThrew' = FALSE
  /\ registered' = EmptyMap
  /\ syncedImages' = EmptyMap
  /\ fetchedImages' = <<>>
  /\ written' = {}
  /\ bi' = 1
  /\ pc' = "pull_all"
  /\ ResetLogs
  /\ UNCHANGED <<serverVars, dirVars, edits, pushVars>>
  /\ calls' = <<>>
  /\ exitCode' = NotExited
  /\ UNCHANGED faults
  /\ UNCHANGED unitVars

\* one pass of the loop over RESOURCES: remote.get, local.set,
\* register_new_pull
PullAllGroup ==
  /\ kind = "pullAll" /\ pc = "pull_all"
  /\ bi <= Len(RESOURCES)
  /\ LET group == RESOURCES[bi]
     IN CASE group = "emails" ->
               /\ localFiles' = LOCAL_EMAILS_RESOURCE_set(localFiles, remoteEmails)
               /\ written' = written \cup {EmailFileName(e) : e \in Range(remoteEmails)}
               /\ dispatch(Act("register_new_pull", group,
                               [updated |-> Len(remoteEmails), created |-> 0,
                                deleted |-> 0, failed |-> 0]))
               /\ UNCHANGED <<localBase, fetchedImages>>
          [] group = "images" ->
               /\ fetchedImages' = remoteImages
               /\ dispatch(Act("register_new_pull", group, NoResult))
               /\ UNCHANGED <<localFiles, localBase, written>>
          [] group = "newsletter" /\ BaseRemoteGet(group) = <<>> ->
               UNCHANGED <<localFiles, localBase, pullVars, reducerVars>>
          [] OTHER ->
               /\ localBase' = [localBase EXCEPT
                                  ![group] = BaseLocalSet(group, BaseRemoteGet(group))]
               /\ dispatch(Act("register_new_pull", group,
                               BaseLocalResult(group, BaseRemoteGet(group))))
               /\ UNCHANGED <<localFiles, pullVars>>
  /\ bi' = bi + 1
  /\ UNCHANGED <<serverVars, syncFile, envVars, kind, pc, pushVars, syncedImages,
                 logVars>>
  /\ calls' = calls \o (IF RESOURCES[bi] = "newsletter" /\ BaseRemoteGet("newsletter") = <<>>
                       THEN <<Call("remote", "get", RESOURCES[bi])>>
                       ELSE <<Call("remote", "get", RESOURCES[bi]),
                              Call("local", "set", RESOURCES[bi])>>)
  /\ UNCHANGED procVars
  /\ UNCHANGED unitVars

\* the end of the loop over RESOURCES: finish_pulling
FinishPullAll ==
  /\ kind = "pullAll" /\ pc = "pull_all"
  /\ bi > Len(RESOURCES)
  /\ dispatch(Act("finish_pulling", "", NoResult))
  /\ pc' = "done"
  /\ UNCHANGED <<serverVars, dirVars, envVars, kind, pushVars, syncedImages, bi,
                 pullVars, logVars>>
  /\ UNCHANGED <<calls, procVars>>
  /\ UNCHANGED unitVars

\* ------------------------------------------------------------------- exit
\* the timer effect of Push / Pull: exit() is called without an error and
\* nothing sets process.exitCode, so the process ends with code 0
Exit ==
  /\ pc = "done"
  /\ exitCode = NotExited
  /\ exitCode' = 0
  /\ UNCHANGED <<serverVars, dirVars, envVars, kind, pc, reducerVars, pushVars,
                 syncedImages, bi, pullVars, logVars, calls, faults>>
  /\ UNCHANGED unitVars

\* --------------------------------------------------------------- operator
\* the edits an operator makes between two runs, to the first file of emails/
\* that the program reads (a file without front matter is never read)
EditKinds == {"attachments", "subject", "image"}

Edited(file, e) ==
  CASE e = "attachments" -> [file EXCEPT !.attachments = "att1"]
    [] e = "subject" -> [file EXCEPT !.subject = "s9"]
    [] e = "image" ->
         [file EXCEPT !.body = Append(@, Img("n", RelPath("emails", "b.png", TRUE)))]

OperatorEdit ==
  /\ exitCode # NotExited
  /\ edits < MaxEdits
  /\ runs < MaxRuns
  /\ \E i \in 1..Len(localFiles), e \in EditKinds :
       /\ isValid(localFiles[i])
       /\ \A j \in 1..(i - 1) : ~isValid(localFiles[j])
       /\ Edited(localFiles[i], e) # localFiles[i]
       /\ localFiles' = [localFiles EXCEPT ![i] = Edited(@, e)]
  /\ edits' = edits + 1
  /\ UNCHANGED <<serverVars, localBase, syncFile, runs, kind, pc, reducerVars,
                 pushVars, syncedImages, bi, pullVars, logVars>>
  /\ UNCHANGED <<calls, procVars>>
  /\ UNCHANGED unitVars

\* ------------------------------------------------------------ pagination
PAGE_SIZE == 100

Min(a, b) == IF a <= b THEN a ELSE b

\* GET {endpoint}?page=p&page_size=PAGE_SIZE on a collection of total records,
\* numbered in server order: response.data.results
PageResults(total, p) ==
  LET first == (p - 1) * PAGE_SIZE
      count == IF total > first THEN Min(PAGE_SIZE, total - first) ELSE 0
  IN [i \in 1..count |-> first + i]

\* variant: the loop goes on until a page comes back empty
HasMoreUntilEmpty(results) == Len(results) > 0

\* hasMore = data.results.length === PAGE_SIZE
HasMore(results) == Len(results) = PAGE_SIZE

\* one pass of the while loop of fetchAllPages (and of the get of emails,
\* snippets and automations): request, push the results, hasMore, page++
FetchPage ==
  /\ unit = "pages"
  /\ pgHasMore
  /\ LET results == PageResults(pgTotal, pgPage)
     IN /\ pgRequests' = Append(pgRequests, [page |-> pgPage, page_size |-> PAGE_SIZE])
        /\ pgItems' = pgItems \o results
        /\ pgHasMore' = HasMore(results)
  /\ pgPage' = pgPage + 1
  /\ UNCHANGED <<programVars, unit, pgTotal, content, readResult, fnVars, regexVars, storeVars>>

\* the call of readSyncState on its own
ReadState ==
  /\ unit = "state"
  /\ ~readResult.done
  /\ readResult' = [done |-> TRUE, state |-> readSyncState(content)]
  /\ UNCHANGED <<programVars, unit, pgTotal, pgPage, pgHasMore, pgItems, pgRequests,
                 content, fnVars, regexVars, storeVars>>

\* nothing was passed to, or returned by, a function exercised on its own
NoInput == [none |-> TRUE]
NoOutput == [none |-> TRUE]

\* automations.yaml does not exist
NoFile == [exists |-> FALSE, text |-> <<>>]

\* a file that exists, with its text
TextFile(text) == [exists |-> TRUE, text |-> text]

pageVars == <<pgTotal, pgPage, pgHasMore, pgItems, pgRequests>>

\* serialize, deserialize, serialize again: the round trip of the tests
\* "should preserve data through roundtrip" and "honors existing escapement"
RoundTrip ==
  /\ unit = "codec"
  /\ output = NoOutput
  /\ output' = [text |-> serialize(input),
                isValid |-> isValid(serialize(input)),
                email |-> deserialize(serialize(input)),
                again |-> serialize(deserialize(serialize(input)))]
  /\ UNCHANGED <<programVars, unit, pageVars, content, readResult, input, regexVars, storeVars>>

\* both resolution directions applied to one text with one image map, and
\* each applied to the result of the other
ResolveBothWays ==
  /\ unit = "images"
  /\ output = NoOutput
  /\ LET absolute == resolveRelativeImageReferences(input.body, input.imageMap)
         relative == convertAbsoluteToRelativeImages(input.body, input.imageMap)
     IN output' = [absolute |-> absolute,
                   relative |-> relative,
                   absoluteThenRelative |->
                     convertAbsoluteToRelativeImages(absolute, input.imageMap),
                   relativeThenAbsolute |->
                     resolveRelativeImageReferences(relative, input.imageMap)]
  /\ UNCHANGED <<programVars, unit, pageVars, content, readResult, input, regexVars, storeVars>>

\* ------------------------------------------------------------------- init
\* the server at the start: two emails, one image, one record per base group
InitRemoteEmails ==
  {<<>>,
   <<Email(1, "s1", "x", "public", "", <<MARKDOWN_MODE_SIGIL, Txt("t1")>>, 1),
     Email(2, "s2", "", "public", "",
           <<MARKDOWN_MODE_SIGIL, Txt("t1"), Img("a", ImageUrl(1, "a.png")),
             Img("l", ExternalUrl)>>, 1)>>,
   <<Email(1, "s1", "x", "public", "", <<MARKDOWN_MODE_SIGIL, Txt("t1"), Ws>>, 1)>>}

InitRemoteImages == <<[id |-> 1, image |-> ImageUrl(1, "a.png")]>>

InitRemoteBase ==
  [g \in {"automations", "newsletter", "snippets"} |->
     CASE g = "automations" -> <<BaseRec(1, "auto", "c1")>>
       [] g = "newsletter" -> <<BaseRec(1, "nl", "c1")>>
       [] g = "snippets" -> <<BaseRec(1, "snip", "c1")>>]

\* the ids the server assigns are fresh: above every id it has handed out
InitIds ==
  {e.id : e \in UNION {Range(list) : list \in InitRemoteEmails}}
    \cup {i.id : i \in Range(InitRemoteImages)}

FirstFreeId == 1 + (CHOOSE m \in InitIds : \A x \in InitIds : x <= m)

\* the directories a run can start in: a fresh one, and two an operator has
\* written by hand
FreshBase == [g \in {"automations", "newsletter", "snippets"} |-> <<>>]

HandBase ==
  [g \in {"automations", "newsletter", "snippets"} |->
     CASE g = "automations" -> <<>>
       [] g = "newsletter" -> <<BaseRec(1, "nl", "c1")>>
       [] g = "snippets" -> <<BaseRec(1, "snip", "c1"), BaseRec(0, "new", "c2")>>]

InitDirectories ==
  {[files |-> <<>>, base |-> FreshBase],
   [files |-> <<EmailFile("x", TRUE, 1, "s1", "x", "", "", <<Txt("t1")>>),
                EmailFile("n", TRUE, 0, "s2", "", "", "",
                          <<Txt("t1"), Img("a", RelPath("media", "a.png", TRUE)),
                            Img("b", RelPath("media", "a.png", FALSE))>>),
                EmailFile("bad", FALSE, 0, "", "", "", "", <<Txt("t1")>>)>>,
     base |-> HandBase],
   [files |-> <<EmailFile("x", TRUE, 1, "s1", "x", "", "", <<Ws, Txt("t2")>>),
                EmailFile("y", TRUE, 2, "s2", "y", "private", "",
                          <<Txt("t1"), Img("a", RelPath("media", "a.png", TRUE)),
                            Img("e", RelPath("emails", "a.png", TRUE)),
                            Img("f", RelPath("emails", "a.png", FALSE))>>)>>,
     base |-> HandBase]}

ProgramInit ==
  /\ remoteEmails \in InitRemoteEmails
  /\ remoteImages = InitRemoteImages
  /\ remoteBase = InitRemoteBase
  /\ nextId = FirstFreeId
  /\ \E d \in InitDirectories : localFiles = d.files /\ localBase = d.base
  /\ syncFile = EmptyMap
  /\ runs = 0
  /\ edits = 0
  /\ kind = "none"
  /\ pc = "idle"
  /\ status = "not_started"
  /\ stats = EmptyMap
  /\ reducerThrew = FALSE
  /\ syncRead = EmptyMap
  /\ syncedImages = EmptyMap
  /\ localEmails = <<>>
  /\ k = 1
  /\ remoteList = <<>>
  /\ changedEmails = <<>>
  /\ si = 1
  /\ updated = 0
  /\ created = 0
  /\ bi = 1
  /\ fetchedImages = <<>>
  /\ written = {}
  /\ uploads = <<>>
  /\ emailWrites = <<>>
  /\ baseWrites = <<>>
  /\ registered = EmptyMap
  /\ calls = <<>>
  /\ faults = 0
  /\ exitCode = NotExited

Init ==
  /\ ProgramInit
  /\ unit = "none"
  /\ yamlFile = NoFile
  /\ config = EmptyMap
  /\ input = NoInput
  /\ output = NoOutput
  /\ lastIndex = 0
  /\ scanLog = <<>>
  /\ opLog = <<>>
  /\ pgTotal = 0
  /\ pgPage = 1
  /\ pgHasMore = FALSE
  /\ pgItems = <<>>
  /\ pgRequests = <<>>
  /\ content = Absent
  /\ readResult = NotRead

Next ==
  \/ StartPush
  \/ SkipSyncedImage
  \/ UploadImage
  \/ UploadImageFails
  \/ DiffEmails
  \/ DiffEmailsListFails
  \/ SetEmail
  \/ SetEmailFails
  \/ RegisterEmails
  \/ PushListGroup
  \/ PushGroupSetRemotely
  \/ PushAutomationsClassified
  \/ PushNewsletter
  \/ PushNewsletterMissing
  \/ WriteSyncStatePush
  \/ StartPull
  \/ PullBaseGroup
  \/ PullImages
  \/ PullImagesFails
  \/ PullEmails
  \/ PullEmailsListFails
  \/ WriteSyncStatePull
  \/ StartPullAll
  \/ PullAllGroup
  \/ FinishPullAll
  \/ Exit
  \/ OperatorEdit

Spec == Init /\ [][Next]_vars

\* ------------------------------------------ the functions on their own
Contents ==
  {Absent, NotJson,
   Json("null", FALSE, NullValue),
   Json("array", FALSE, NullValue),
   Json("object", FALSE, NullValue),
   Json("object", TRUE, MapValue(EmptyMap)),
   Json("object", TRUE,
        MapValue(Put(EmptyMap, 1, SyncedImage(1, MediaPath("a.png"),
                                               ImageUrl(1, "a.png"), "a.png")))),
   Json("object", TRUE, NullValue),
   Json("object", TRUE, StringValue)}

\* the bodies and records handed to serialize
CodecBodies ==
  {<<Txt("t1")>>,
   <<Txt("t1"), Ws, Txt("t2")>>,
   <<Ws, Txt("t1")>>,
   <<Txt("t1"), Ws>>,
   <<MARKDOWN_MODE_SIGIL, Txt("t1")>>,
   <<MARKDOWN_MODE_SIGIL, MARKDOWN_MODE_SIGIL, Txt("t1")>>,
   <<Txt("t1"), Hr, Txt("t2")>>,
   <<Txt("t1"), Img("a", RelPath("media", "a.png", TRUE))>>,
   <<>>}

CodecRecords ==
  {Email(i, subj, sl, ty, "", b, 0) :
     i \in {0, 1}, subj \in {"", "s1"}, sl \in {"", "x"},
     ty \in {"", "public", "private"}, b \in CodecBodies}

\* RegExp.prototype.exec of a global expression: the position of the first
\* image reference after lastIndex, 0 when there is none (null)
RegexExec(text, from) ==
  IF \E i \in (from + 1)..Len(text) : text[i].k = "img"
  THEN CHOOSE i \in (from + 1)..Len(text) :
         /\ text[i].k = "img"
         /\ \A j \in (from + 1)..(i - 1) : text[j].k # "img"
  ELSE 0

\* variant: the scan ends once a relative reference has been collected
ScanEndsAfterFirstResult(match, results) == match # 0 /\ results = <<>>

\* while (match !== null)
ScanGoesOn(match, results) == match # 0

\* the texts handed to findRelativeImageReferences: plain text, relative
\* references and absolute ones
ScanContents ==
  UNION {[1..n -> {Txt("t1"), Img("a", RelPath("media", "a.png", TRUE)),
                   Img("e", ImageUrl(1, "a.png"))}] : n \in 0..MaxTokens}

\* the call of findRelativeImageReferences(content): results = []
CallFind ==
  /\ unit = "scan"
  /\ input = NoInput
  /\ Len(scanLog) < MaxCalls
  /\ \E text \in ScanContents : input' = [content |-> text]
  /\ output' = <<>>
  /\ UNCHANGED <<programVars, unit, pageVars, content, readResult, regexVars, storeVars>>

\* one exec and one test of the loop condition, then either the loop body or
\* the return; exec leaves lastIndex behind the match, or at 0 after null
ScanStep ==
  /\ unit = "scan"
  /\ input # NoInput
  /\ LET match == RegexExec(input.content, lastIndex)
     IN /\ lastIndex' = match
        /\ IF ScanGoesOn(match, output)
           THEN /\ output' = IF input.content[match].t.kind = "rel"
                              THEN Append(output, input.content[match])
                              ELSE output
                /\ UNCHANGED <<input, scanLog>>
           ELSE /\ scanLog' = Append(scanLog, [content |-> input.content,
                                                results |-> output])
                /\ input' = NoInput
                /\ output' = NoOutput
  /\ UNCHANGED <<programVars, unit, pageVars, content, readResult, storeVars>>

\* hash(email) of lib/serde/email.ts: the list handed to genericHash; the
\* digest is taken to tell any two different lists apart
hash(email) ==
  <<email.body, email.status, email.email_type, email.slug, email.publish_date,
    email.description, email.image, email.attachments>>

\* the fields of an email an operator can edit, and those only the server sets
EditableFields ==
  {"subject", "body", "status", "email_type", "slug", "publish_date", "description",
   "image", "attachments"}

ServerFields == {"id", "creation_date", "modification_date"}

\* two emails to tell apart: every field empty, every field set
HashedEmails ==
  {[f \in EditableFields \cup ServerFields |-> ""],
   [f \in EditableFields \cup ServerFields |-> "v1"]}

\* the hash of an email and of a copy that differs in one field
HashBoth ==
  /\ unit = "hash"
  /\ output = NoOutput
  /\ output' = [first |-> hash(input.email),
                second |-> hash([input.email EXCEPT ![input.field] = "v2"])]
  /\ UNCHANGED <<programVars, unit, pageVars, content, readResult, input, regexVars, storeVars>>

\* the extension-to-MIME table of sync/index.ts
EXTENSION_TO_MIME ==
  [ext \in {".gif", ".jpeg", ".jpg", ".png", ".svg", ".webp"} |->
     CASE ext = ".gif" -> "image/gif"
       [] ext = ".jpeg" -> "image/jpeg"
       [] ext = ".jpg" -> "image/jpeg"
       [] ext = ".png" -> "image/png"
       [] ext = ".svg" -> "image/svg+xml"
       [] ext = ".webp" -> "image/webp"]

\* the extensions of the files handed to uploadImage: "" is a file without one
Extensions == DOMAIN EXTENSION_TO_MIME \cup {".PNG", ".bmp", ".txt", ""}

\* String.prototype.toLowerCase
toLowerCase(ext) == IF ext = ".PNG" THEN ".png" ELSE ext

\* EXTENSION_TO_MIME[ext] || "application/octet-stream"
mimeType(ext) ==
  IF toLowerCase(ext) \in DOMAIN EXTENSION_TO_MIME
  THEN EXTENSION_TO_MIME[toLowerCase(ext)]
  ELSE "application/octet-stream"

\* uploadImage(configuration, imagePath): the POST /images it sends and
\* whether it throws, for a file with extension ext and an API that answers
\* 2xx (ok) or not
uploadImage(ext, ok) ==
  [requests |-> <<[method |-> "POST", path |-> "/images", type |-> mimeType(ext)]>>,
   threw |-> ~ok]

\* one call of uploadImage
UploadOne ==
  /\ unit = "upload"
  /\ output = NoOutput
  /\ output' = uploadImage(input.ext, input.ok)
  /\ UNCHANGED <<programVars, unit, pageVars, content, readResult, input, regexVars, storeVars>>

\* an automation as the API returns it: its keys in order, with their values
Automation(i, n) == <<[key |-> "id", val |-> i], [key |-> "name", val |-> n]>>

\* the same automation with its keys in another order
AutomationNameFirst(i, n) == <<[key |-> "name", val |-> n], [key |-> "id", val |-> i]>>

RECURSIVE stringifyYAML(_)
\* serialize(automations) = stringifyYAML(automations, { indent: 2 }): one
\* line per key, the first of each item led by a dash; "[]" for no item
stringifyYAML(automations) ==
  IF automations = <<>> THEN <<>>
  ELSE [j \in 1..Len(Head(automations)) |->
          [dash |-> j = 1, key |-> Head(automations)[j].key,
           val |-> Head(automations)[j].val]]
       \o stringifyYAML(Tail(automations))

serializeAutomations(automations) ==
  IF automations = <<>> THEN <<[dash |-> FALSE, key |-> "[]", val |-> ""]>>
  ELSE stringifyYAML(automations)

\* variant: set as the snippets resource does it, every record written and
\* counted as updated
LOCAL_AUTOMATIONS_RESOURCE_setAlways(file, value) ==
  [file |-> TextFile(serializeAutomations(value)),
   wrote |-> TRUE,
   result |-> [updates |-> Len(value), creations |-> 0, noops |-> 0, deletions |-> 0]]

\* LOCAL_AUTOMATIONS_RESOURCE.set(value, configuration): the file afterwards,
\* whether writeFile was called, and the OperationResult
LOCAL_AUTOMATIONS_RESOURCE_set(file, value) ==
  IF ~file.exists
  THEN [file |-> TextFile(serializeAutomations(value)),
        wrote |-> TRUE,
        result |-> [updates |-> 0, creations |-> Len(value), noops |-> 0, deletions |-> 0]]
  ELSE IF serializeAutomations(value) # file.text
  THEN [file |-> TextFile(serializeAutomations(value)),
        wrote |-> TRUE,
        result |-> [updates |-> Len(value), creations |-> 0, noops |-> 0, deletions |-> 0]]
  ELSE [file |-> file,
        wrote |-> FALSE,
        result |-> [updates |-> 0, creations |-> 0, noops |-> Len(value), deletions |-> 0]]

\* the lists handed to LOCAL_AUTOMATIONS_RESOURCE.set
AutomationLists ==
  {<<>>,
   <<Automation("123", "Welcome Email")>>,
   <<AutomationNameFirst("123", "Welcome Email")>>,
   <<Automation("123", "Original")>>,
   <<Automation("123", "Welcome Email"), Automation("456", "Reminder Email")>>}

\* one call of LOCAL_AUTOMATIONS_RESOURCE.set
SetAutomations ==
  /\ unit = "automations"
  /\ Len(opLog) < MaxCalls
  /\ \E value \in AutomationLists :
       LET r == LOCAL_AUTOMATIONS_RESOURCE_set(yamlFile, value)
       IN /\ yamlFile' = r.file
          /\ opLog' = Append(opLog, [value |-> value, before |-> yamlFile,
                                     wrote |-> r.wrote, result |-> r.result,
                                     after |-> r.file])
  /\ UNCHANGED <<programVars, unit, pageVars, content, readResult, fnVars, regexVars,
                 config>>

\* config.delete(key)
ConfDelete(cfg, key) == [x \in (DOMAIN cfg) \ {key} |-> cfg[x]]

DEFAULT_BASE_URL == "https://api.buttondown.com"

\* variant: the API key is stored and the OAuth tokens are left alone
handleApiKeySubmitKeepsTokens(cfg, apiKey) ==
  Put(Put(cfg, "apiKey", apiKey), "baseUrl", DEFAULT_BASE_URL)

\* handleApiKeySubmit of Login for a non-empty key: what it leaves stored
handleApiKeySubmit(cfg, apiKey) ==
  ConfDelete(ConfDelete(ConfDelete(
    Put(Put(cfg, "apiKey", apiKey), "baseUrl", DEFAULT_BASE_URL),
    "accessToken"), "refreshToken"), "tokenExpiresAt")

\* startOAuthFlow of Login after exchangeCodeForTokens returned tokens: what
\* it leaves stored
startOAuthFlow(cfg, tokens) ==
  ConfDelete(
    Put(Put(Put(Put(cfg, "accessToken", tokens.accessToken),
                "refreshToken", tokens.refreshToken),
            "tokenExpiresAt", tokens.expiresIn),
        "baseUrl", DEFAULT_BASE_URL),
    "apiKey")

\* the stored configurations a login or logout can find: nothing, an API key,
\* OAuth tokens, and a file that holds both
StoredApiKey == Put(Put(EmptyMap, "apiKey", "key0"), "baseUrl", DEFAULT_BASE_URL)

StoredTokens ==
  Put(Put(Put(Put(EmptyMap, "accessToken", "at0"), "refreshToken", "rt0"),
          "tokenExpiresAt", "t0"), "baseUrl", DEFAULT_BASE_URL)

InitConfigs ==
  {EmptyMap, StoredApiKey, StoredTokens, Put(StoredTokens, "apiKey", "key0")}

\* login --api-key: the key typed is empty (error, nothing stored) or not
LoginWithApiKey ==
  /\ unit = "login"
  /\ Len(opLog) < MaxCalls
  /\ \E apiKey \in {"", "key1"} :
       IF apiKey = ""
       THEN /\ opLog' = Append(opLog, [op |-> "api_key", ok |-> FALSE])
            /\ UNCHANGED config
       ELSE /\ config' = handleApiKeySubmit(config, apiKey)
            /\ opLog' = Append(opLog, [op |-> "api_key", ok |-> TRUE])
  /\ UNCHANGED <<programVars, unit, pageVars, content, readResult, fnVars, regexVars,
                 yamlFile>>

\* login through the browser: the flow ends with tokens stored
LoginWithOAuth ==
  /\ unit = "login"
  /\ Len(opLog) < MaxCalls
  /\ config' = startOAuthFlow(config, [accessToken |-> "at1", refreshToken |-> "rt1",
                                       expiresIn |-> "t1"])
  /\ opLog' = Append(opLog, [op |-> "oauth", ok |-> TRUE])
  /\ UNCHANGED <<programVars, unit, pageVars, content, readResult, fnVars, regexVars,
                 yamlFile>>

\* login through the browser fails: the callback or the token exchange
\* throws before anything is stored, or the answer lacks refresh_token and
\* config.set throws on undefined after the access token was stored
LoginWithOAuthFails ==
  /\ unit = "login"
  /\ Len(opLog) < MaxCalls
  /\ \/ UNCHANGED config
     \/ config' = Put(config, "accessToken", "at1")
  /\ opLog' = Append(opLog, [op |-> "oauth", ok |-> FALSE])
  /\ UNCHANGED <<programVars, unit, pageVars, content, readResult, fnVars, regexVars,
                 yamlFile>>

\* Logout: config.clear()
Logout ==
  /\ unit = "login"
  /\ Len(opLog) < MaxCalls
  /\ config' = EmptyMap
  /\ opLog' = Append(opLog, [op |-> "logout", ok |-> TRUE])
  /\ UNCHANGED <<programVars, unit, pageVars, content, readResult, fnVars, regexVars,
                 yamlFile>>

\* config.get(key): the stored value, "" for a key that is not stored
ConfGet(cfg, key) == IF key \in DOMAIN cfg THEN cfg[key] ELSE ""

TOKEN_EXPIRY_BUFFER_SECONDS == 60

\* variant: the token counts as expired only once its expiry has passed
isTokenExpiredWithoutBuffer(cfg, now) ==
  \/ "tokenExpiresAt" \notin DOMAIN cfg
  \/ cfg["tokenExpiresAt"] = 0
  \/ now >= cfg["tokenExpiresAt"]

\* isTokenExpired, with Math.floor(Date.now() / 1000) passed as now
isTokenExpired(cfg, now) ==
  \/ "tokenExpiresAt" \notin DOMAIN cfg
  \/ cfg["tokenExpiresAt"] = 0
  \/ now >= cfg["tokenExpiresAt"] - TOKEN_EXPIRY_BUFFER_SECONDS

calculateTokenExpiresAt(now, expiresIn) == now + expiresIn

\* the clock when the command starts, and the lifetime the token endpoint
\* gives a refreshed token
StartTime == 1000

TokenLifetime == 3600

\* what refreshAccessToken can do: answer with new tokens, throw (not ok or
\* no connection), or answer without a refresh_token, so that the second
\* config.set throws after the first one stored the access token
RefreshOutcomes == {"tokens", "throws", "no_refresh_token"}

NoAuth == [apiKey |-> "", accessToken |-> ""]

\* getAuthCredentials: the credentials handed to the command, the
\* configuration it leaves stored, and whether it ended the process with
\* process.exit(1)
getAuthCredentials(cfg, flag, now, refresh) ==
  IF flag # ""
  THEN [auth |-> [NoAuth EXCEPT !.apiKey = flag], config |-> cfg, exit |-> NotExited]
  ELSE IF ConfGet(cfg, "apiKey") # ""
  THEN [auth |-> [NoAuth EXCEPT !.apiKey = cfg["apiKey"]], config |-> cfg,
        exit |-> NotExited]
  ELSE IF ConfGet(cfg, "accessToken") # "" /\ ConfGet(cfg, "refreshToken") # ""
  THEN IF isTokenExpired(cfg, now)
       THEN CASE refresh = "tokens" ->
                  [auth |-> [NoAuth EXCEPT !.accessToken = "at2"],
                   config |-> Put(Put(Put(cfg, "accessToken", "at2"),
                                      "refreshToken", "rt2"),
                                  "tokenExpiresAt",
                                  calculateTokenExpiresAt(now, TokenLifetime)),
                   exit |-> NotExited]
              [] refresh = "throws" ->
                  [auth |-> NoAuth, config |-> cfg, exit |-> 1]
              [] refresh = "no_refresh_token" ->
                  [auth |-> NoAuth, config |-> Put(cfg, "accessToken", "at2"),
                   exit |-> 1]
       ELSE [auth |-> [NoAuth EXCEPT !.accessToken = cfg["accessToken"]],
             config |-> cfg, exit |-> NotExited]
  ELSE [auth |-> NoAuth, config |-> cfg, exit |-> NotExited]

\* the stored configurations a pull or push can find: nothing, an API key,
\* tokens with no expiry, with expiry 0, expired, inside the buffer, at its
\* edge, just outside it and far from it, an access token alone, and a key
\* next to expired tokens
TokenConfig(expiry) ==
  Put(Put(Put(EmptyMap, "accessToken", "at0"), "refreshToken", "rt0"),
      "tokenExpiresAt", expiry)

AuthConfigs ==
  {EmptyMap,
   Put(EmptyMap, "apiKey", "key0"),
   Put(Put(EmptyMap, "accessToken", "at0"), "refreshToken", "rt0"),
   Put(Put(EmptyMap, "accessToken", "at0"), "tokenExpiresAt", StartTime + TokenLifetime),
   Put(TokenConfig(StartTime - 100), "apiKey", "key0")}
  \cup {TokenConfig(e) : e \in {0, StartTime - 100, StartTime + 30,
                                StartTime + TOKEN_EXPIRY_BUFFER_SECONDS,
                                StartTime + TOKEN_EXPIRY_BUFFER_SECONDS + 1,
                                StartTime + TokenLifetime}}

\* cli: case pull / case push. The command asks for credentials, ends with
\* code 1 when it got none, and renders Pull or Push otherwise; time passes
\* between two commands
RunCommand ==
  /\ unit = "auth"
  /\ Len(opLog) < MaxCalls
  /\ \E command \in {"pull", "push"}, flag \in {"", "flagkey"},
        refresh \in RefreshOutcomes, later \in {1, TokenLifetime} :
       LET got == getAuthCredentials(config, flag, input.now, refresh)
           started == got.exit = NotExited /\ got.auth # NoAuth
       IN  /\ config' = got.config
           /\ opLog' = Append(opLog,
                [command |-> command, flag |-> flag, now |-> input.now,
                 before |-> config, auth |-> got.auth,
                 exit |-> IF started THEN NotExited ELSE 1,
                 rendered |-> started])
           /\ input' = [now |-> input.now + later]
  /\ UNCHANGED <<programVars, unit, pageVars, content, readResult, output, regexVars,
                 yamlFile>>

\* the exit timer effect of Push / Pull after a render: an effect with
\* dependency state.status runs when the status has changed; its cleanup
\* clears the timer and the effect arms a new one unless the status is
\* "not_started"
TimerEffect(oldStatus, newStatus, timer) ==
  IF newStatus = oldStatus THEN timer
  ELSE IF newStatus # "not_started" THEN "armed" ELSE "off"

\* Push / Pull as a component: one dispatch of performPush / performPull
\* (the start action, a register action after a request or file write, the
\* finish action, or register_error from the catch block), the reducer, and
\* the timer effect of the render that follows
DispatchNext ==
  /\ unit = "timer"
  /\ input.exitedIn = ""
  /\ input.pc # "end"
  /\ \E type \in {"start", "register_new", "finish", "register_error"} :
       LET suffix == IF input.command = "push" THEN "push" ELSE "pull"
           action == Act(CASE type = "start" -> "start_" \o suffix \o "ing"
                           [] type = "register_new" -> "register_new_" \o suffix
                           [] type = "finish" -> "finish_" \o suffix \o "ing"
                           [] OTHER -> "register_error",
                         "emails", NoResult)
           state == [status |-> input.status, stats |-> EmptyMap]
           next == IF input.command = "push" THEN reducer(state, action)
                   ELSE pullReducer(state, action)
       IN /\ type = "start" <=> input.pc = "start"
          /\ type = "register_new" => input.steps > 0
          /\ type = "finish" => (input.pc = "run" /\ input.steps = 0)
          /\ type = "register_error" => (input.pc = "run" /\ input.steps > 0)
          /\ ~next.throws
          /\ input' = [input EXCEPT
                         !.status = next.status,
                         !.pc = IF type \in {"finish", "register_error"} THEN "end"
                                ELSE "run",
                         !.steps = IF type = "register_new" THEN @ - 1 ELSE @,
                         !.timer = TimerEffect(input.status, next.status, @)]
  /\ UNCHANGED <<programVars, unit, pageVars, content, readResult, output, regexVars,
                 storeVars>>

\* 500 ms have passed since the timer was armed and no render has cleared it:
\* exit() is called
TimerFires ==
  /\ unit = "timer"
  /\ input.timer = "armed"
  /\ input.exitedIn = ""
  /\ input' = [input EXCEPT !.timer = "off", !.exitedIn = input.status]
  /\ UNCHANGED <<programVars, unit, pageVars, content, readResult, output, regexVars,
                 storeVars>>

\* variant: the callback handler without the comparison of the state parameter
handleCallbackAnyState(req, oauthState) ==
  IF req.path # "/callback" THEN "not_found"
  ELSE IF req.error THEN "reject"
  ELSE IF req.code = "" THEN "reject"
  ELSE "resolve"

\* the request handler of the local server of startOAuthFlow: what it does
\* with codePromise
handleCallback(req, oauthState) ==
  IF req.path # "/callback" THEN "not_found"
  ELSE IF req.error THEN "reject"
  ELSE IF req.state # oauthState THEN "reject"
  ELSE IF req.code = "" THEN "reject"
  ELSE "resolve"

\* the state generated for this login attempt
OAuthState == "s1"

\* the requests the local server can receive: another path, and /callback
\* with or without error, with the state of this attempt, another one or
\* none, with or without code
CallbackRequests ==
  {[path |-> "/favicon.ico", error |-> FALSE, state |-> "", code |-> ""]}
    \cup [path : {"/callback"}, error : BOOLEAN, state : {OAuthState, "s2", ""},
          code : {"", "c1"}]

\* a request reaches the local server while it listens; resolve and reject
\* settle codePromise only while it is pending
ReceiveRequest ==
  /\ unit = "oauth"
  /\ input.server = "listening"
  /\ Len(opLog) < MaxCalls
  /\ \E req \in CallbackRequests :
       LET handled == handleCallback(req, OAuthState)
       IN /\ opLog' = Append(opLog, [req |-> req, promise |-> input.promise])
          /\ input' = IF input.promise = "pending" /\ handled # "not_found"
                      THEN [input EXCEPT !.promise = handled, !.code = req.code]
                      ELSE input
  /\ UNCHANGED <<programVars, unit, pageVars, content, readResult, output, regexVars,
                 yamlFile, config>>

\* server.on("error"): the port is taken; codePromise is rejected
ServerError ==
  /\ unit = "oauth"
  /\ input.server = "listening"
  /\ input.promise = "pending"
  /\ opLog = <<>>
  /\ input' = [input EXCEPT !.promise = "reject", !.server = "failed"]
  /\ UNCHANGED <<programVars, unit, pageVars, content, readResult, output, regexVars,
                 storeVars>>

\* await codePromise has settled: exchanging_code after resolve; after reject
\* the catch block sets error and the finally block closes the server
AfterCallback ==
  /\ unit = "oauth"
  /\ input.status = "waiting_for_browser"
  /\ input.promise # "pending"
  /\ input' = IF input.promise = "resolve"
              THEN [input EXCEPT !.status = "exchanging_code"]
              ELSE [input EXCEPT !.status = "error", !.ended = @ + 1,
                                 !.server = "closed"]
  /\ UNCHANGED <<programVars, unit, pageVars, content, readResult, output, regexVars,
                 storeVars>>

\* exchangeCodeForTokens has answered: the tokens are stored and the flow
\* ends in success, or the call or a config.set throws and it ends in error;
\* the finally block closes the server
ExchangeCode ==
  /\ unit = "oauth"
  /\ input.status = "exchanging_code"
  /\ \E answer \in RefreshOutcomes :
       /\ config' = CASE answer = "tokens" ->
                           startOAuthFlow(config, [accessToken |-> "at1",
                                                   refreshToken |-> "rt1",
                                                   expiresIn |-> "t1"])
                      [] answer = "throws" -> config
                      [] answer = "no_refresh_token" -> Put(config, "accessToken", "at1")
       /\ input' = [input EXCEPT
                      !.status = IF answer = "tokens" THEN "success" ELSE "error",
                      !.exchanges = @ + 1,
                      !.ended = @ + 1,
                      !.server = "closed"]
  /\ UNCHANGED <<programVars, unit, pageVars, content, readResult, output, regexVars,
                 yamlFile, opLog>>

\* the pieces of a text handed to the resolvers: plain text, references to
\* mapped and unmapped files in two spellings, mapped and foreign URLs
ResolverTokens ==
  {Txt("t1"),
   Img("a", RelPath("media", "a.png", TRUE)),
   Img("b", RelPath("media", "a.png", FALSE)),
   Img("c", RelPath("media", "b.png", TRUE)),
   Img("d", RelPath("emails", "c.png", TRUE)),
   Img("e", ImageUrl(1, "a.png")),
   Img("f", ImageUrl(2, "c.png")),
   Img("g", ExternalUrl)}

ResolverBodies == UNION {[1..n -> ResolverTokens] : n \in 0..MaxTokens}

\* image maps: empty, one entry, two entries
ImageMaps ==
  {EmptyMap,
   Put(EmptyMap, 1, [localPath |-> MediaPath("a.png"), url |-> ImageUrl(1, "a.png")]),
   Put(Put(EmptyMap, 1, [localPath |-> MediaPath("a.png"), url |-> ImageUrl(1, "a.png")]),
       2, [localPath |-> [dir |-> "emails", file |-> "c.png"],
           url |-> ImageUrl(2, "c.png")])}

UnitInit ==
  /\ ProgramInit
  /\ remoteEmails = <<>>
  /\ localFiles = <<>>
  /\ pgPage = 1
  /\ pgItems = <<>>
  /\ pgRequests = <<>>
  /\ readResult = NotRead
  /\ output = NoOutput
  /\ lastIndex = 0
  /\ scanLog = <<>>
  /\ opLog = <<>>
  /\ \/ /\ unit = "pages"
        /\ pgTotal \in 0..MaxCollection
        /\ pgHasMore = TRUE
        /\ content = Absent
        /\ yamlFile = NoFile
        /\ config = EmptyMap
        /\ input = NoInput
     \/ /\ unit = "state"
        /\ pgTotal = 0
        /\ pgHasMore = FALSE
        /\ content \in Contents
        /\ yamlFile = NoFile
        /\ config = EmptyMap
        /\ input = NoInput
     \/ /\ unit = "codec"
        /\ pgTotal = 0
        /\ pgHasMore = FALSE
        /\ content = Absent
        /\ yamlFile = NoFile
        /\ config = EmptyMap
        /\ input \in CodecRecords
     \/ /\ unit = "images"
        /\ pgTotal = 0
        /\ pgHasMore = FALSE
        /\ content = Absent
        /\ yamlFile = NoFile
        /\ config = EmptyMap
        /\ input \in [body : ResolverBodies, imageMap : ImageMaps]
     \/ /\ unit = "scan"
        /\ pgTotal = 0
        /\ pgHasMore = FALSE
        /\ content = Absent
        /\ yamlFile = NoFile
        /\ config = EmptyMap
        /\ input = NoInput
     \/ /\ unit = "upload"
        /\ pgTotal = 0
        /\ pgHasMore = FALSE
        /\ content = Absent
        /\ yamlFile = NoFile
        /\ config = EmptyMap
        /\ input \in [ext : Extensions, ok : BOOLEAN]
     \/ /\ unit = "hash"
        /\ pgTotal = 0
        /\ pgHasMore = FALSE
        /\ content = Absent
        /\ yamlFile = NoFile
        /\ config = EmptyMap
        /\ input \in [email : HashedEmails, field : EditableFields \cup ServerFields]
     \/ /\ unit = "automations"
        /\ pgTotal = 0
        /\ pgHasMore = FALSE
        /\ content = Absent
        /\ input = NoInput
        /\ yamlFile \in {NoFile} \cup {TextFile(serializeAutomations(v)) : v \in AutomationLists}
        /\ config = EmptyMap
     \/ /\ unit = "login"
        /\ pgTotal = 0
        /\ pgHasMore = FALSE
        /\ content = Absent
        /\ input = NoInput
        /\ yamlFile = NoFile
        /\ config \in InitConfigs
     \/ /\ unit = "auth"
        /\ pgTotal = 0
        /\ pgHasMore = FALSE
        /\ content = Absent
        /\ input = [now |-> StartTime]
        /\ yamlFile = NoFile
        /\ config \in AuthConfigs
     \/ /\ unit = "timer"
        /\ pgTotal = 0
        /\ pgHasMore = FALSE
        /\ content = Absent
        /\ input \in [command : {"push", "pull"}, status : {"not_started"},
                      pc : {"start"}, steps : 0..MaxCalls, timer : {"off"},
                      exitedIn : {""}]
        /\ yamlFile = NoFile
        /\ config = EmptyMap
     \/ /\ unit = "oauth"
        /\ pgTotal = 0
        /\ pgHasMore = FALSE
        /\ content = Absent
        /\ yamlFile = NoFile
        /\ config \in {EmptyMap, StoredApiKey}
        /\ input = [status |-> "waiting_for_browser", promise |-> "pending",
                    code |-> "", server |-> "listening", exchanges |-> 0,
                    ended |-> 0, before |-> config]

UnitNext ==
  \/ FetchPage
  \/ ReadState
  \/ RoundTrip
  \/ ResolveBothWays
  \/ CallFind
  \/ ScanStep
  \/ HashBoth
  \/ UploadOne
  \/ SetAutomations
  \/ LoginWithApiKey
  \/ LoginWithOAuth
  \/ LoginWithOAuthFails
  \/ Logout
  \/ RunCommand
  \/ DispatchNext
  \/ TimerFires
  \/ ReceiveRequest
  \/ ServerError
  \/ AfterCallback
  \/ ExchangeCode

UnitSpec == UnitInit /\ [][UnitNext]_vars

\* ================================================================ claims
\* the type of an email whose front matter names none
TypeOrDefault(t) == IF t = "" THEN FRONT_MATTER_FIELD_TO_DEFAULT_VALUE.email_type ELSE t

\* every field an operator can write in the file has the value the record r
\* holds; the marker comment of a body does not count
SameFields(e, r) ==
  /\ e.id = r.id
  /\ e.subject = r.subject
  /\ e.slug = r.slug
  /\ TypeOrDefault(e.email_type) = TypeOrDefault(r.email_type)
  /\ e.attachments = r.attachments
  /\ ReplaceFirstSigil(e.body) = ReplaceFirstSigil(r.body)

\* the local emails of the push run after relative-to-absolute resolution
Resolved == ResolvedEmails(localEmails, ImageMapOf(syncedImages))

\* the email has a counterpart in the fetched list and equals it
Unchanged(e) ==
  /\ e.id # 0
  /\ HasRemote(remoteList, e.id)
  /\ SameFields(e, RemoteById(remoteList, e.id))

Submitted(e) == \E w \in Range(emailWrites) : w.email = e

C2_EveryChangeSubmitted ==
  (kind = "push" /\ pc = "base") =>
    /\ \A i \in 1..Len(Resolved) : ~Unchanged(Resolved[i]) => Submitted(Resolved[i])
    /\ \A g \in 1..(bi - 1) :
         \A r \in Range(localBase[BASE_RESOURCES[g]]) :
           \E w \in Range(baseWrites) : w.res = BASE_RESOURCES[g] /\ w.rec = r

\* a tally of an OperationResult, under the name sync/types.ts declares or the
\* name the result of REMOTE_EMAILS_RESOURCE.set carries; 0 when it has none
Tally(result, name, alias) ==
  IF name \in DOMAIN result THEN result[name]
  ELSE IF alias \in DOMAIN result THEN result[alias]
  ELSE 0

NumWrites(verb) == Len(SelectSeq(emailWrites, LAMBDA w : w.verb = verb))

\* C3: the OperationResult registered for the emails group of a push counts
\* every valid local email once: noops the unsubmitted ones, updates the PATCH
\* calls, creations the POST calls, deletions 0, and the three add up to the
\* number of valid local emails.
C3_EmailTallyCountsEveryEmail ==
  (kind = "push" /\ "emails" \in DOMAIN stats) =>
    LET result == stats["emails"]
    IN /\ Tally(result, "updates", "updated") = NumWrites("PATCH")
       /\ Tally(result, "creations", "created") = NumWrites("POST")
       /\ Tally(result, "noops", "noops") = Len(localEmails) - Len(emailWrites)
       /\ Tally(result, "deletions", "deleted") = 0
       /\ Tally(result, "updates", "updated") + Tally(result, "creations", "created")
            + Tally(result, "noops", "noops") = Len(localEmails)

\* C4: in a push run a PATCH or POST of a base group (automations,
\* newsletter, snippets) is issued only for a record that differs from what
\* the server holds or that the server does not hold.
C4_BaseWritesOnlyForChanges ==
  kind = "push" => \A w \in Range(baseWrites) : ~w.equal

UploadsOf(p) == Len(SelectSeq(uploads, LAMBDA u : u.path = p))

\* C5: within one push run the number of upload requests for an absolute
\* local path is 0 when the path is the localPath of an entry of the sync
\* state read at the start, and at most 1 otherwise, however many references
\* point to it.
C5_AtMostOneUploadPerPath ==
  kind = "push" =>
    \A p \in Range(AllRefs(localEmails)) \cup {u.path : u \in Range(uploads)} :
      IF EntriesWithPath(syncRead, p) # {} THEN UploadsOf(p) = 0 ELSE UploadsOf(p) <= 1

\* the upload loops are through; one path with two references was uploaded
\* once, another referenced path was in the state file and was not uploaded
C5_Witness ==
  /\ kind = "push" /\ pc = "set_emails"
  /\ \E p \in Range(AllRefs(localEmails)) :
       /\ Count(AllRefs(localEmails), p) >= 2
       /\ UploadsOf(p) = 1
  /\ \E p \in Range(AllRefs(localEmails)) :
       /\ EntriesWithPath(syncRead, p) # {}
       /\ UploadsOf(p) = 0

IsRel(tok) == tok.k = "img" /\ tok.t.kind = "rel"

\* the submitted body is the local body with every relative reference whose
\* resolved path is in the image map replaced by a URL mapped to that path
ResolvedFrom(sent, local, images) ==
  /\ Len(sent) = Len(local)
  /\ \A j \in 1..Len(local) :
       IF IsRel(local[j]) /\ EntriesWithPath(images, Resolve(local[j].t)) # {}
       THEN /\ sent[j].k = "img" /\ sent[j].alt = local[j].alt
            /\ \E e \in EntriesWithPath(images, Resolve(local[j].t)) :
                 sent[j].t = images[e].url
       ELSE sent[j] = local[j]

NewEntries == DOMAIN syncFile \ DOMAIN syncRead

\* C6: in a push run every upload of a referenced image is through before an
\* email is submitted; each submitted body has every relative reference whose
\* resolved path is in the image map replaced by the mapped URL; after a
\* successful run the state file holds, for each upload of the run, exactly
\* one new entry under the id the server returned, with the resolved absolute
\* path as localPath.
C6_UploadThenResolveThenRecord ==
  kind = "push" =>
    /\ emailWrites # <<>> =>
         /\ k > Len(AllRefs(localEmails))
         /\ \A p \in Range(AllRefs(localEmails)) : EntriesWithPath(syncedImages, p) # {}
    /\ \A w \in Range(emailWrites) :
         \E i \in 1..Len(localEmails) :
           /\ localEmails[i].id = w.email.id
           /\ localEmails[i].subject = w.email.subject
           /\ ResolvedFrom(w.email.body, localEmails[i].body, syncedImages)
    /\ status = "pushed" =>
         /\ NewEntries = {u.id : u \in Range(uploads)}
         /\ Cardinality(NewEntries) = Len(uploads)
         /\ \A u \in Range(uploads) : syncFile[u.id].localPath = u.path
         /\ \A id \in DOMAIN syncRead : syncFile[id] = syncRead[id]

\* a push ended well after it uploaded an image and submitted an email whose
\* relative reference to that image went out as the returned URL
C6_Witness ==
  /\ kind = "push" /\ status = "pushed"
  /\ \E u \in Range(uploads), w \in Range(emailWrites) :
       \E i \in 1..Len(localEmails) :
         /\ localEmails[i].id = w.email.id
         /\ \E j \in 1..Len(localEmails[i].body) :
              /\ IsRel(localEmails[i].body[j])
              /\ Resolve(localEmails[i].body[j].t) = u.path
              /\ w.email.body[j].t = syncFile[u.id].url

\* C7: a failed upload of one referenced image does not abort the push: the
\* run goes on and ends in the completed state.
C7_UploadFailureDoesNotAbort ==
  (kind = "push" /\ pc = "done" /\ \E u \in Range(uploads) : ~u.ok) => status = "pushed"

\* C8: an entry of .buttondown.json is never removed or replaced: whatever
\* step a pull or push run takes, every entry in the file before the step is
\* in the file, unchanged, after it.
C8_EntriesOnlyAdded ==
  [][\A id \in DOMAIN syncFile : id \in DOMAIN syncFile' /\ syncFile'[id] = syncFile[id]]_vars

ListedUrls == {im.image : im \in Range(fetchedImages)}

WrittenFiles == {f \in Range(localFiles) : f.name \in written}

C10_StatusMachine ==
  /\ ~reducerThrew
  /\ (kind # "none" /\ pc # "done") => status \in {"pulling", "pushing"}
  /\ (kind # "none" /\ pc = "done") => status \in {"pulled", "pushed", "error"}

OrchestratorRun == kind \in {"push", "pull"}

\* C11: after the step of a pull or push run that fails with an exception no
\* further get or set is invoked in the run and no step is retried, and the
\* failing step and what follows leave every file and remote record written
\* before the failure as written.
C11_FailureEndsTheRun ==
  [][OrchestratorRun /\ runs' = runs =>
       /\ status = "error" =>
            /\ calls' = calls
            /\ UNCHANGED <<serverVars, localBase, syncFile, logVars>>
            /\ localFiles' = localFiles \/ edits' = edits + 1
       /\ (status # "error" /\ status' = "error") =>
            UNCHANGED <<serverVars, dirVars>>]_vars

\* a pull failed at the images after it had written a base group, and its
\* process has ended
C11_Witness ==
  /\ kind = "pull" /\ status = "error" /\ exitCode # NotExited
  /\ \E c \in Range(calls) : c.side = "local" /\ c.op = "set" /\ c.ok
  /\ \E c \in Range(calls) : ~c.ok

FailedRemoteRequest ==
  \/ \E c \in Range(calls) : ~c.ok /\ c.side = "remote" /\ c.op \in {"get", "set"}
  \/ \E w \in Range(emailWrites) : ~w.ok

NumOkWrites(verb) == Len(SelectSeq(emailWrites, LAMBDA w : w.verb = verb /\ w.ok))

\* C12: a list, patch or create request answered with a non-2xx status
\* propagates: the run ends in the error state, a failed request is not
\* counted as an update or a creation, and a failed list is not taken for an
\* empty list.
C12_ApiFailurePropagates ==
  OrchestratorRun =>
    /\ (pc = "done" /\ FailedRemoteRequest) => status = "error"
    /\ (kind = "push" /\ "emails" \in DOMAIN registered) =>
         /\ registered["emails"].updated = NumOkWrites("PATCH")
         /\ registered["emails"].created = NumOkWrites("POST")

VerbFor(r) == IF r.id # 0 THEN "PATCH" ELSE "POST"

WritesOf(group) == SelectSeq(baseWrites, LAMBDA w : w.res = group)

StateCalls(op) == SelectSeq(calls, LAMBDA c : c.side = "state" /\ c.op = op)

\* C16: a run reads .buttondown.json once, before any other call, and writes
\* it once, after all resource groups; the file is not written before the end.
C16_StateFileReadFirstWrittenLast ==
  OrchestratorRun =>
    /\ pc # "done" => StateCalls("write") = <<>>
    /\ status \in {"pushed", "pulled"} =>
         /\ Len(StateCalls("read")) = 1
         /\ calls[1] = Call("state", "read", "")
         /\ Len(StateCalls("write")) = 1
         /\ calls[Len(calls)] = Call("state", "write", "")

\* C18: when a run fails after some resource groups completed, the state the
\* user is shown still holds the results registered for those groups.
C18_TalliesSurviveFailure ==
  (OrchestratorRun /\ status = "error") =>
    \A r \in DOMAIN registered : r \in DOMAIN stats /\ stats[r] = registered[r]

\* C19: the exit code of the process is 0 exactly when the run ended in the
\* completed state; a run that ended in the error state gives a non-zero code.
C19_ExitCodeTellsOutcome ==
  (OrchestratorRun /\ exitCode # NotExited) =>
    (exitCode = 0 <=> status \in {"pushed", "pulled"})

\* C20: a malformed or absent local document is skipped and does not abort the
\* run: a push in which no remote request failed ends in the completed state.
C20_MalformedLocalDocumentSkipped ==
  (kind = "push" /\ pc = "done" /\ \A c \in Range(calls) : c.side = "remote" => c.ok)
    => status = "pushed"

\* C14: a paginated get requests the pages 1, 2, 3, ... in order with
\* page_size 100, stops after the first page with fewer than 100 results,
\* returns all results in page order, and ends after total \div 100 + 1
\* requests (also when total is a multiple of 100).
C14_PagesInOrderUntilShortPage ==
  unit = "pages" =>
    /\ \A i \in 1..Len(pgRequests) : pgRequests[i] = [page |-> i, page_size |-> 100]
    /\ Len(pgRequests) <= (pgTotal \div 100) + 1
    /\ pgPage = Len(pgRequests) + 1
    /\ pgHasMore => Len(pgItems) = 100 * Len(pgRequests)
    /\ ~pgHasMore =>
         /\ Len(pgRequests) = (pgTotal \div 100) + 1
         /\ pgItems = [i \in 1..pgTotal |-> i]

\* the loop has ended on a collection of exactly two full pages, after a
\* third request that came back empty
C14_Witness ==
  /\ unit = "pages" /\ ~pgHasMore
  /\ pgTotal = 200
  /\ Len(pgRequests) = 3
  /\ Len(pgItems) = 200

\* C17: readSyncState returns the default state for a missing file and for a
\* file that is not JSON, fills a missing syncedImages with the empty map, and
\* whatever the file holds returns a state whose syncedImages is a map.
C17_ReadAlwaysGivesAMap ==
  (unit = "state" /\ readResult.done) =>
    /\ content.kind # "json" => readResult.state = DEFAULT_STATE
    /\ (content.kind = "json" /\ ~content.hasKey) => readResult.state = DEFAULT_STATE
    /\ readResult.state.syncedImages.type = "map"

\* C21: for every valid email record r the codec can produce,
\* deserialize(serialize(r)) is valid and field-equal to r, and serializing
\* that result again gives the very text serialize(r) gave.
C21_RoundTrip ==
  (unit = "codec" /\ output # NoOutput) =>
    /\ output.isValid
    /\ output.email = input
    /\ output.again = output.text

\* the entries of the image map of the call that hold the path a relative
\* reference resolves to, respectively the URL of an absolute reference
EntriesFor(tok) ==
  IF tok.k # "img" THEN {}
  ELSE IF tok.t.kind = "rel" THEN EntriesWithPath(input.imageMap, Resolve(tok.t))
  ELSE EntriesWithUrl(input.imageMap, tok.t)

IsRelRef(tok) == tok.k = "img" /\ tok.t.kind = "rel"

IsUrlRef(tok) == tok.k = "img" /\ tok.t.kind = "url"

\* every reference of the text is relative, normalized and in the image map
AllMappedNormalized(b) ==
  \A i \in 1..Len(b) :
    b[i].k = "img" => (IsRelRef(b[i]) /\ b[i].t.norm /\ EntriesFor(b[i]) # {})

\* C22: with an entry {localPath: P, url: U} in the image map, relative to
\* absolute rewrites every ![a](rel) with resolve(dir, rel) = P to ![a](U),
\* absolute to relative rewrites ![a](U) to ![a](relative(dir, P)), and on a
\* text whose references are all mapped and normalized relative paths,
\* absolute to relative undoes relative to absolute.
C22_ImageReferenceSymmetry ==
  (unit = "images" /\ output # NoOutput) =>
    /\ Len(output.absolute) = Len(input.body)
    /\ Len(output.relative) = Len(input.body)
    /\ \A i \in 1..Len(input.body) :
         LET tok == input.body[i]
         IN /\ IsRelRef(tok) =>
                 \A e \in EntriesFor(tok) :
                   output.absolute[i] = Img(tok.alt, input.imageMap[e].url)
            /\ IsUrlRef(tok) =>
                 \A e \in EntriesFor(tok) :
                   /\ IsRelRef(output.relative[i])
                   /\ output.relative[i].alt = tok.alt
                   /\ output.relative[i].t.norm
                   /\ Resolve(output.relative[i].t) = input.imageMap[e].localPath
    /\ AllMappedNormalized(input.body) => output.absoluteThenRelative = input.body

C22_Witness ==
  /\ unit = "images" /\ output # NoOutput
  /\ Len(input.body) = 2
  /\ AllMappedNormalized(input.body)
  /\ input.body[1] # input.body[2]
  /\ output.absolute # input.body
  /\ \A i \in 1..2 : IsRelRef(input.body[i]) /\ IsUrlRef(output.absolute[i])

\* C23: in both resolution directions a reference whose target has no entry
\* in the image map comes back unchanged, and so does every piece of the
\* text that is not a rewritten reference.
C23_UnknownReferenceUnchanged ==
  (unit = "images" /\ output # NoOutput) =>
    /\ Len(output.absolute) = Len(input.body)
    /\ Len(output.relative) = Len(input.body)
    /\ \A i \in 1..Len(input.body) :
         LET tok == input.body[i]
         IN /\ EntriesFor(tok) = {} =>
                 (output.absolute[i] = tok /\ output.relative[i] = tok)
            /\ output.absolute[i] # tok => IsRelRef(tok)
            /\ output.relative[i] # tok => IsUrlRef(tok)

C23_Witness ==
  /\ unit = "images" /\ output # NoOutput
  /\ input.imageMap # EmptyMap
  /\ Len(input.body) = 2
  /\ IsRelRef(input.body[1]) /\ EntriesFor(input.body[1]) = {}
  /\ IsUrlRef(input.body[2]) /\ EntriesFor(input.body[2]) = {}
  /\ output.absolute = input.body
  /\ output.relative = input.body

\* C24: findRelativeImageReferences returns the same result for the same
\* text on every call, whatever calls preceded it: the result is the list of
\* the relative references of the text, and the scan cursor of the shared
\* expression is at 0 whenever no call is running.
C24_ScanRestartable ==
  unit = "scan" =>
    /\ input = NoInput => lastIndex = 0
    /\ \A i \in 1..Len(scanLog) :
         scanLog[i].results = findRelativeImageReferences(scanLog[i].content)
    /\ \A i, j \in 1..Len(scanLog) :
         scanLog[i].content = scanLog[j].content
           => scanLog[i].results = scanLog[j].results

C24_Witness ==
  /\ unit = "scan"
  /\ input = NoInput
  /\ Len(scanLog) = 2
  /\ scanLog[1].content = scanLog[2].content
  /\ Len(scanLog[1].content) = 2
  /\ Len(scanLog[1].results) = 1
  /\ scanLog[1].content[2].k = "img"

\* C25: two records that differ only in a field the server sets (id,
\* timestamps) have equal hashes, and two records that differ in one field an
\* operator can edit have different hashes.
C25_FingerprintFollowsEdits ==
  (unit = "hash" /\ output # NoOutput) =>
    /\ input.field \in ServerFields => output.first = output.second
    /\ input.field \in EditableFields => output.first # output.second

\* C26: uploadImage on a file whose extension is not in the extension-to-MIME
\* table fails with an error and sends no upload request; no file is ever
\* uploaded with content type application/octet-stream.
C26_UnknownExtensionRejected ==
  (unit = "upload" /\ output # NoOutput) =>
    /\ toLowerCase(input.ext) \notin DOMAIN EXTENSION_TO_MIME =>
         (output.threw /\ output.requests = <<>>)
    /\ \A r \in Range(output.requests) : r.type # "application/octet-stream"

\* the images LOCAL_IMAGES_RESOURCE.set has fetched and written to media/ in
\* this run: it downloads every image of the list it is given
Downloaded ==
  IF Call("local", "set", "images") \in Range(calls) THEN Range(fetchedImages) ELSE {}

\* the image has an entry in .buttondown.json; no step removes a file of
\* media/, so the file the entry names exists
TrackedOnDisk(im) == im.id \in DOMAIN syncFile /\ syncFile[im.id].url = im.image

\* C27: a pull run does not download a remote image that is tracked in
\* .buttondown.json and whose local file exists (the state file is written
\* only in the last step of a run, so until then it is as the run found it).
C27_TrackedImageNotDownloaded ==
  (kind \in {"pull", "pullAll"} /\ pc # "done") =>
    \A im \in Downloaded : ~TrackedOnDisk(im)

\* C28: a push run uploads every file of media/ that is not yet tracked in
\* .buttondown.json, also when no email references it, and records it: after
\* a push without a failed request every file of media/ has an entry, and
\* the files that had none when the run started were uploaded in the run.
C28_EveryMediaFileUploaded ==
  (kind = "push" /\ pc = "done" /\ status = "pushed" /\ ~FailedRemoteRequest) =>
    \A f \in MediaDirectory :
      /\ EntriesWithPath(syncFile, MediaPath(f)) # {}
      /\ EntriesWithPath(syncRead, MediaPath(f)) = {} =>
           \E u \in Range(uploads) : u.path = MediaPath(f) /\ u.ok

NoTally == [updates |-> 0, creations |-> 0, noops |-> 0, deletions |-> 0]

\* C29: LOCAL_AUTOMATIONS_RESOURCE.set(value) classifies the whole list in
\* one way: creations = |value| and the file written when automations.yaml
\* does not exist, updates = |value| and the file overwritten when it exists
\* with other content, noops = |value| and no write when the content is the
\* same, the other tallies 0; a second set with the same value is a no-op.
C29_WholeListClassifiedOnce ==
  unit = "automations" =>
    /\ \A i \in 1..Len(opLog) :
         LET c == opLog[i]
             text == TextFile(serializeAutomations(c.value))
         IN /\ c.before = NoFile =>
                 /\ c.result = [NoTally EXCEPT !.creations = Len(c.value)]
                 /\ c.wrote /\ c.after = text
            /\ (c.before # NoFile /\ c.before # text) =>
                 /\ c.result = [NoTally EXCEPT !.updates = Len(c.value)]
                 /\ c.wrote /\ c.after = text
            /\ c.before = text =>
                 /\ c.result = [NoTally EXCEPT !.noops = Len(c.value)]
                 /\ ~c.wrote /\ c.after = c.before
    /\ \A i \in 1..(Len(opLog) - 1) :
         opLog[i + 1].value = opLog[i].value =>
           /\ opLog[i + 1].result = [NoTally EXCEPT !.noops = Len(opLog[i].value)]
           /\ ~opLog[i + 1].wrote
           /\ opLog[i + 1].after = opLog[i].after

C29_Witness ==
  /\ unit = "automations"
  /\ Len(opLog) = 2
  /\ opLog[1].before = NoFile
  /\ Len(opLog[1].value) = 2
  /\ opLog[2].value = opLog[1].value
  /\ opLog[2].result.noops = 2
  /\ yamlFile = TextFile(serializeAutomations(opLog[1].value))

OAuthKeys == {"accessToken", "refreshToken", "tokenExpiresAt"}

\* the last login or logout went through
LastOpOk == opLog # <<>> /\ opLog[Len(opLog)].ok

LastOp == opLog[Len(opLog)].op

\* C30: after a successful login or logout the stored configuration does
\* not hold an API key and OAuth tokens at the same time: an API-key login
\* leaves the key and none of accessToken, refreshToken, tokenExpiresAt, an
\* OAuth login leaves the tokens and no apiKey, a logout leaves nothing.
C30_OneCredentialKind ==
  (unit = "login" /\ LastOpOk) =>
    /\ ~("apiKey" \in DOMAIN config /\ OAuthKeys \cap DOMAIN config # {})
    /\ LastOp = "api_key" =>
         ("apiKey" \in DOMAIN config /\ OAuthKeys \cap DOMAIN config = {})
    /\ LastOp = "oauth" =>
         (OAuthKeys \subseteq DOMAIN config /\ "apiKey" \notin DOMAIN config)
    /\ LastOp = "logout" => config = EmptyMap

C30_Witness ==
  /\ unit = "login"
  /\ Len(opLog) = 2
  /\ opLog[1] = [op |-> "oauth", ok |-> TRUE]
  /\ opLog[2] = [op |-> "api_key", ok |-> TRUE]
  /\ config["apiKey"] = "key1"

\* the last command of the log and the credentials its run was given
LastRun == opLog[Len(opLog)]

\* the claim's own reading of an expired token: no expiry stored, or the
\* clock within 60 s of the expiry
ExpiredAt(cfg, now) ==
  \/ "tokenExpiresAt" \notin DOMAIN cfg
  \/ cfg["tokenExpiresAt"] = 0
  \/ now >= cfg["tokenExpiresAt"] - 60

\* C31: a pull or push is never rendered with an access token that is
\* expired. The credentials are the --api-key flag, else the stored API key,
\* else the stored tokens; a run rendered with an access token has either the
\* stored token, not expired, or a refreshed one whose access token, refresh
\* token and expiry are stored; a command that is not rendered ends with
\* code 1.
C31_NoRunWithExpiredToken ==
  (unit = "auth" /\ opLog # <<>>) =>
    LET r == LastRun IN
    /\ r.flag # "" => r.auth = [NoAuth EXCEPT !.apiKey = r.flag]
    /\ (r.flag = "" /\ ConfGet(r.before, "apiKey") # "") =>
         r.auth = [NoAuth EXCEPT !.apiKey = r.before["apiKey"]]
    /\ (r.rendered /\ r.auth.accessToken # "") =>
         /\ r.auth.apiKey = ""
         /\ config["accessToken"] = r.auth.accessToken
         /\ ~ExpiredAt(config, r.now)
         /\ \/ config = r.before
            \/ /\ ExpiredAt(r.before, r.now)
               /\ config["accessToken"] = "at2"
               /\ config["refreshToken"] = "rt2"
               /\ config["tokenExpiresAt"] = r.now + TokenLifetime
    /\ ~r.rendered => r.exit = 1
    /\ r.rendered <=> r.auth # NoAuth

\* a command found tokens inside the 60 s buffer and ran with refreshed ones
C31_Witness ==
  /\ unit = "auth"
  /\ opLog # <<>>
  /\ LastRun.rendered
  /\ LastRun.before = TokenConfig(LastRun.now + 30)
  /\ LastRun.auth.accessToken = "at2"

\* the push run directly follows a pull that wrote its email files; no
\* operator edit was made, no request failed, and only a push changes the
\* remote
PushRightAfterPull ==
  kind = "push" /\ runs = 2 /\ edits = 0 /\ faults = 0 /\ written # {}

\* C32: a push that directly follows a successful pull of the same directory,
\* with no local edit and no remote change in between, issues no PATCH and no
\* POST for an email whose file the pull wrote.
C32_PushAfterPullSubmitsNothing ==
  PushRightAfterPull =>
    \A w \in Range(emailWrites) : EmailFileName(w.email) \notin written

\* the push run directly follows a push that completed: it is the second run,
\* it read a state file, which only a completed run writes, and no pull has
\* fetched the image list; no operator edit was made and no request failed
PushRightAfterPush ==
  /\ kind = "push" /\ runs = 2 /\ edits = 0 /\ faults = 0
  /\ syncRead # EmptyMap
  /\ fetchedImages = <<>> /\ written = {}

\* C33: a second push that directly follows a successful push, with no local
\* edit in between and a remote that stored what was submitted, issues no
\* POST and no PATCH for emails; an email the first push created is not
\* created again. (An email whose id the server does not know was not stored
\* by the first push and is left out.)
C33_SecondPushSubmitsNothing ==
  PushRightAfterPush =>
    \A w \in Range(emailWrites) :
      /\ w.verb # "POST"
      /\ w.verb = "PATCH" => ~HasRemote(remoteList, w.email.id)

\* C34: after a push run, completed or failed, every image that was uploaded
\* during the run has a Synced Image Entry in the persisted state file.
C34_UploadedImagesPersisted ==
  (kind = "push" /\ pc = "done") =>
    \A u \in Range(uploads) :
      u.ok => (u.id \in DOMAIN syncFile /\ syncFile[u.id].localPath = u.path)

\* C35: in every sync state a run has written, no two Synced Image Entries
\* share a localPath, no two share a url, and each entry is stored under the
\* key equal to its id.
C35_PathsAndUrlsOneToOne ==
  /\ \A i \in DOMAIN syncFile : syncFile[i].id = i
  /\ \A i, j \in DOMAIN syncFile :
       i # j => (syncFile[i].localPath # syncFile[j].localPath
                 /\ syncFile[i].url # syncFile[j].url)

\* C36: in every pull or push run the application exit is triggered only
\* after the status has reached pulled, pushed or error: the exit timer never
\* fires while the status is pulling or pushing and steps of the run are
\* still to come.
C36_ExitOnlyAfterFinalStatus ==
  (unit = "timer" /\ input.exitedIn # "") =>
    (input.exitedIn \in {"pushed", "pulled", "error"} /\ input.pc = "end")

\* a /callback request without error parameter, with a code and with the
\* state of this login attempt
ValidCallback(req) ==
  req.path = "/callback" /\ ~req.error /\ req.code # "" /\ req.state = OAuthState

\* the request that settled codePromise: the first one that is not answered
\* with 404
Settling(i) ==
  /\ opLog[i].req.path = "/callback"
  /\ \A j \in 1..(i - 1) : opLog[j].req.path # "/callback"

\* C37: in the OAuth login flow the token exchange is performed, and the
\* stored configuration changed, only after the first /callback request was
\* one without error, with a code and with the state of this attempt; the
\* flow ends at most once, in success or in error, the tokens are stored when
\* it ends in success, and the local server is closed whenever it has ended.
C37_ExchangeOnlyAfterValidCallback ==
  unit = "oauth" =>
    /\ (input.status \in {"exchanging_code", "success"} \/ input.exchanges > 0
          \/ config # input.before) =>
         \E i \in 1..Len(opLog) : Settling(i) /\ ValidCallback(opLog[i].req)
    /\ input.exchanges <= 1
    /\ input.ended <= 1
    /\ input.ended = 1 <=> input.status \in {"success", "error"}
    /\ input.status = "success" =>
         (OAuthKeys \subseteq DOMAIN config /\ "apiKey" \notin DOMAIN config)
    /\ input.status \in {"success", "error"} => input.server = "closed"

\* the flow ended in success after a request for another path and a valid
\* callback, and replaced a stored API key
C37_Witness ==
  /\ unit = "oauth"
  /\ input.status = "success"
  /\ input.server = "closed"
  /\ Len(opLog) = 2
  /\ opLog[1].req.path # "/callback"
  /\ ValidCallback(opLog[2].req)
  /\ "apiKey" \in DOMAIN input.before

====
